---- MODULE Spec2Model ----
(***************************************************************************)
(* Hospital recommendation engine of the Medic-chatbot backend.            *)
(*                                                                         *)
(* Modelled from app/services/hospital_recommendation_service.py and the   *)
(* two endpoints of app/api/endpoints/medical.py that drive it:            *)
(*   POST /recommend-hospitals   (persisted path, recommend_hospitals)     *)
(*   POST /recommend-by-disease  (light path, recommend_by_disease)        *)
(*                                                                         *)
(* Conventions                                                             *)
(*  - A nullable column or an Optional request field is NULL (the empty    *)
(*    tuple) or Some(v) (a one-element tuple).                             *)
(*  - Hospital category names are the romanised forms of the Korean        *)
(*    literals of the source (Uiwon, Byeongwon, ...).                      *)
(*  - All modelled points lie on one meridian and latitudes are measured   *)
(*    in kilometres of arc, so that the haversine distance is exactly the  *)
(*    absolute difference of the latitudes.                                *)
(*  - Scores are fixed-point integers, SCALE units to one score point.     *)
(***************************************************************************)
EXTENDS Integers, Sequences, FiniteSets, TLC

VARIABLES
    hospitals,                    \* table hospitals: id -> row
    hospital_departments,         \* table hospital_departments: sequence of rows
    hospital_equipment,           \* table hospital_equipment: sequence of rows
    department_diseases,          \* table department_diseases: sequence of rows
    disease_equipment_categories, \* table disease_equipment_categories: sequence of rows
    diseases,                     \* table diseases: id -> row
    users,                        \* table users: id -> row
    model_inference_results,      \* table model_inference_results: id -> row
    hospital_recommendations,     \* table hospital_recommendations: sequence of rows
    request,                      \* the request being served, NoRequest when idle
    run,                          \* locals of the recommendation run of that request
    response,                     \* the HTTP response of that request
    score_call,                   \* one direct call of calculate_recommendation_score
    sessions,                     \* concurrent invocations: session id -> its position and locals
    chat,                         \* the chat flow: the last websocket exchange and full analysis
    chat_rooms,                   \* table chat_rooms: id -> row
    chat_messages,                \* table chat_messages: sequence of rows
    active_connections,           \* ConnectionManager.active_connections: room -> user -> websocket
    websockets                    \* the websocket of each accepted connection: id -> its state

domain_vars == <<hospitals, hospital_departments, hospital_equipment,
                 department_diseases, disease_equipment_categories, diseases,
                 users, model_inference_results>>

\* The tables no session of a recommendation run holds a loaded instance of
\* when it commits, or holds unmodified.
reference_vars == <<hospital_departments, hospital_equipment,
                    department_diseases, disease_equipment_categories, diseases,
                    users, model_inference_results>>

vars == <<hospitals, hospital_departments, hospital_equipment,
          department_diseases, disease_equipment_categories, diseases,
          users, model_inference_results, hospital_recommendations,
          request, run, response, score_call, sessions, chat,
          chat_rooms, chat_messages, active_connections, websockets>>

\* The chat tables.
room_vars == <<chat_rooms, chat_messages>>

\* The state of the ConnectionManager and of the websockets it accepted.
connection_vars == <<active_connections, websockets>>

----------------------------------------------------------------------------
(* Generic helpers                                                         *)

NULL == <<>>
Some(v) == <<v>>
IsNull(o) == o = NULL
Val(o) == o[1]

Min(a, b) == IF a <= b THEN a ELSE b
Max(a, b) == IF a >= b THEN a ELSE b
Abs(a) == IF a >= 0 THEN a ELSE -a

Range(s) == {s[i] : i \in 1..Len(s)}

RECURSIVE SumSeq(_)
SumSeq(s) == IF s = <<>> THEN 0 ELSE Head(s) + SumSeq(Tail(s))

\* The elements of the finite set S of integers in ascending order.
RECURSIVE Ascending(_)
Ascending(S) ==
    IF S = {} THEN <<>>
    ELSE LET m == CHOOSE x \in S : \A y \in S : x <= y
         IN  <<m>> \o Ascending(S \ {m})

Reverse(s) == [i \in 1..Len(s) |-> s[Len(s) + 1 - i]]

\* The orders in which a store may return the rows whose ids are S (a query
\* without ORDER BY). Two orders are modelled, ascending and descending id:
\* Init draws every assignment of profiles to hospital ids, so every
\* arrangement of the candidates already occurs in ascending order.
StoreOrders(S) == {Ascending(S), Reverse(Ascending(S))}

\* Python's s[:n] for a list s and an integer n (negative n counts from the end).
Slice(s, n) ==
    IF n >= 0 THEN SubSeq(s, 1, Min(n, Len(s)))
    ELSE SubSeq(s, 1, Max(Len(s) + n, 0))

----------------------------------------------------------------------------
(* Fixed-point score arithmetic                                            *)

\* Units per score point: 2 for the half-point steps of the priority bonus,
\* 3 for the thirds of W_SPEC / 3.0 and of the equipment ratios, 1000 for the
\* three decimals of the breakdown.
SCALE == 2 * 3 * 1000

\* floor(1000 * sqrt(n)) for the clamped specialist counts 0..100.
SqrtMilli ==
    [n \in 0..100 |->
        CHOOSE r \in 0..10000 : r * r <= n * 1000000 /\ (r + 1) * (r + 1) > n * 1000000]

\* round(x, 3) of a score x held in SCALE units.
Round3(x) ==
    LET step == SCALE \div 1000
    IN  IF x >= 0 THEN ((x + step \div 2) \div step) * step
        ELSE -(((-x + step \div 2) \div step) * step)

----------------------------------------------------------------------------
(* HospitalRecommendationService: class constants                          *)

\* Sanggeupjonghapbyeongwon (tertiary general hospital), Yoyangbyeongwon
\* (convalescent hospital), Chigwauiwon (dental clinic), Chigwabyeongwon
\* (dental hospital).
HOSPITAL_TYPE_EXCLUDE ==
    {"Sanggeupjonghapbyeongwon", "Yoyangbyeongwon", "Chigwauiwon", "Chigwabyeongwon"}

\* Uiwon (clinic), Byeongwon (hospital), Bogeonjiso (public health sub-center),
\* Bogeonso (public health center), Jonghapbyeongwon (general hospital),
\* Hanuiwon (oriental-medicine clinic), Hanbangbyeongwon (oriental-medicine
\* hospital).
HOSPITAL_TYPE_PRIORITY ==
    [n \in {"Uiwon", "Byeongwon", "Bogeonjiso", "Bogeonso", "Jonghapbyeongwon",
            "Hanuiwon", "Hanbangbyeongwon"} |->
        CASE n \in {"Uiwon", "Byeongwon"} -> 5
          [] n \in {"Bogeonjiso", "Bogeonso"} -> 4
          [] n = "Jonghapbyeongwon" -> 3
          [] OTHER -> 1]

\* dict.get(key, default)
DictGet(d, key, default) == IF key \in DOMAIN d THEN d[key] ELSE default

----------------------------------------------------------------------------
(* GeoDistance                                                             *)

\* Haversine distance in km. With lon1 = lon2 the formula reduces to
\* R * |lat2 - lat1| (in radians); latitudes are held in km of arc.
calculate_distance(lat1, lon1, lat2, lon2) == Abs(lat2 - lat1)

----------------------------------------------------------------------------
(* ScoreCalculator: calculate_recommendation_score                         *)

\* held_equipment is the parameter hospital_equipment of the source (the name
\* is taken by the table).

\* A faulty choice of weights that ignores whether equipment is required.
ScoreWeightsFixed(required_equipment) == [equip |-> 50, spec |-> 30, dist |-> 20]

\* The weight triple (in points), chosen on the truthiness of required_equipment.
ScoreWeights(required_equipment) ==
    IF required_equipment # <<>>
    THEN [equip |-> 50, spec |-> 30, dist |-> 20]
    ELSE [equip |-> 30, spec |-> 40, dist |-> 30]

\* set(required_equipment) & set(held_equipment)
MatchedEquipment(required_equipment, held_equipment) ==
    Range(required_equipment) \cap Range(held_equipment)

\* A faulty equipment score that counts the held rows naming a required
\* category instead of intersecting the two sets.
EquipmentScoreByRows(required_equipment, held_equipment, W_EQUIP) ==
    IF required_equipment # <<>>
    THEN LET matched_count ==
                 Len(SelectSeq(held_equipment,
                               LAMBDA e : e \in Range(required_equipment)))
         IN  (matched_count * W_EQUIP * SCALE) \div Max(1, Len(required_equipment))
    ELSE LET equipment_count == Len(held_equipment)
             per_item == Max((W_EQUIP * SCALE) \div 12, 2 * SCALE)
         IN  Min(equipment_count * per_item, W_EQUIP * SCALE)

\* 1. equipment score (weight W_EQUIP)
EquipmentScore(required_equipment, held_equipment, W_EQUIP) ==
    IF required_equipment # <<>>
    THEN LET matched_count ==
                 Cardinality(MatchedEquipment(required_equipment, held_equipment))
         IN  (matched_count * W_EQUIP * SCALE) \div Max(1, Len(required_equipment))
    ELSE LET equipment_count == Len(held_equipment)
             per_item == Max((W_EQUIP * SCALE) \div 12, 2 * SCALE)
         IN  Min(equipment_count * per_item, W_EQUIP * SCALE)

\* sc_val = int(specialist_count) if specialist_count is not None else 0
ScVal(specialist_count) == IF IsNull(specialist_count) THEN 0 ELSE Val(specialist_count)

\* A faulty specialist score on a flatter curve, W_SPEC / 4 per root.
SpecialistScoreQuarter(specialist_count, W_SPEC) ==
    LET clamped == Min(Max(ScVal(specialist_count), 0), 100)
    IN  Min((SqrtMilli[clamped] * ((W_SPEC * SCALE) \div 4)) \div 1000, W_SPEC * SCALE)

\* 2. specialist score (weight W_SPEC)
SpecialistScore(specialist_count, W_SPEC) ==
    LET clamped == Min(Max(ScVal(specialist_count), 0), 100)
    IN  Min((SqrtMilli[clamped] * ((W_SPEC * SCALE) \div 3)) \div 1000, W_SPEC * SCALE)

\* A faulty fallback, the filter's default of 20 km instead of 5 km.
ScoreRadiusFallback20(max_distance_km) ==
    IF ~IsNull(max_distance_km) /\ Val(max_distance_km) # 0 /\ Val(max_distance_km) > 0
    THEN Val(max_distance_km)
    ELSE 20

\* R = max_distance_km if max_distance_km and max_distance_km > 0 else 5.0
ScoreRadius(max_distance_km) ==
    IF ~IsNull(max_distance_km) /\ Val(max_distance_km) # 0 /\ Val(max_distance_km) > 0
    THEN Val(max_distance_km)
    ELSE 5

\* A distance score without the max(0.0, ...) clamp.
DistanceScoreUnclamped(distance_km, max_distance_km, W_DIST) ==
    LET R == ScoreRadius(max_distance_km)
    IN  ((R - distance_km) * W_DIST * SCALE) \div R

\* 3. distance score (weight W_DIST)
DistanceScore(distance_km, max_distance_km, W_DIST) ==
    LET R == ScoreRadius(max_distance_km)
    IN  (Max(0, R - distance_km) * W_DIST * SCALE) \div R

\* 4. category priority: 0 for a missing or empty name, else the table's
\* value, 2 for a name the table does not hold.
TypePriority(hospital_type_name) ==
    IF ~IsNull(hospital_type_name) /\ Val(hospital_type_name) # ""
    THEN DictGet(HOSPITAL_TYPE_PRIORITY, Val(hospital_type_name), 2)
    ELSE 0

PriorityBonus(priority) == ((priority - 2) * SCALE) \div 2

\* The returned tuple (final_score, priority, breakdown) as a record; the
\* reason string is not modelled. equipment_score, specialist_score and
\* distance_score are the function's unrounded locals.
calculate_recommendation_score(distance_km, required_equipment, held_equipment, specialist_count, hospital_type_name, max_distance_km) ==
    LET W == ScoreWeights(required_equipment)
        matched_count ==
            IF required_equipment # <<>>
            THEN Cardinality(MatchedEquipment(required_equipment, held_equipment))
            ELSE 0
        total_required == Len(required_equipment)
        equipment_score == EquipmentScore(required_equipment, held_equipment, W.equip)
        specialist_score == SpecialistScore(specialist_count, W.spec)
        distance_score == DistanceScore(distance_km, max_distance_km, W.dist)
        base_score == equipment_score + specialist_score + distance_score
        priority == TypePriority(hospital_type_name)
        priority_bonus == PriorityBonus(priority)
        final_score == base_score + priority_bonus
    IN  [final_score |-> final_score,
         priority |-> priority,
         equipment_score |-> equipment_score,
         specialist_score |-> specialist_score,
         distance_score |-> distance_score,
         breakdown |->
             [weights |-> W,
              equipment_score |-> Round3(equipment_score),
              specialist_score |-> Round3(specialist_score),
              distance_score |-> Round3(distance_score),
              priority_bonus |-> Round3(priority_bonus),
              final_score |-> Round3(final_score),
              matched_equipment_count |-> matched_count,
              total_required_equipment |-> total_required]]

----------------------------------------------------------------------------
(* Read-only lookups of HospitalRecommendationService                      *)

\* Python truthiness of an optional string / an optional number.
TruthyStr(o) == ~IsNull(o) /\ Val(o) # ""
TruthyNum(o) == ~IsNull(o) /\ Val(o) # 0

\* [n[0] for n in names]: one name per row of the disease, no deleted_at filter.
get_required_equipment_for_disease(disease_id) ==
    LET rows == SelectSeq(disease_equipment_categories,
                          LAMBDA r : r.disease_id = disease_id)
    IN  [i \in 1..Len(rows) |-> rows[i].equipment_category_name]

\* One name per live row of the hospital (no DISTINCT), falsy names dropped.
get_hospital_equipment(hospital_id) ==
    LET rows == SelectSeq(hospital_equipment,
                          LAMBDA r : /\ r.hospital_id = hospital_id
                                     /\ IsNull(r.deleted_at)
                                     /\ TruthyStr(r.equipment_category_name))
    IN  [i \in 1..Len(rows) |-> Val(rows[i].equipment_category_name)]

\* A faulty department subquery without the filter on the disease.
DepartmentIdsOfAnyDisease(disease_id) ==
    {r.department_id : r \in Range(department_diseases)}

\* db.query(DepartmentDisease.department_id).filter(disease_id == ...)
DepartmentIdsOfDisease(disease_id) ==
    {r.department_id : r \in {x \in Range(department_diseases) : x.disease_id = disease_id}}

\* A faulty specialist count over every department of the hospital.
specialist_count_of_hospital(hospital_id, disease_id) ==
    LET rows == SelectSeq(hospital_departments,
                          LAMBDA r : /\ r.hospital_id = hospital_id
                                     /\ ~IsNull(r.specialist_count))
    IN  SumSeq([i \in 1..Len(rows) |-> Val(rows[i].specialist_count)])

\* coalesce(sum(specialist_count), 0) over the hospital's rows for the
\* disease's departments; SQL SUM skips NULL.
get_specialist_count_for_hospital_and_disease(hospital_id, disease_id) ==
    LET dept_id_list == DepartmentIdsOfDisease(disease_id)
        rows == SelectSeq(hospital_departments,
                          LAMBDA r : /\ r.hospital_id = hospital_id
                                     /\ r.department_id \in dept_id_list
                                     /\ ~IsNull(r.specialist_count))
    IN  IF dept_id_list = {} THEN 0
        ELSE SumSeq([i \in 1..Len(rows) |-> Val(rows[i].specialist_count)])

----------------------------------------------------------------------------
(* CandidateFilter: get_hospitals_by_disease_and_location                  *)

\* A faulty category filter that lets every named category through.
AnyNamedType(hospital_type_name) == ~IsNull(hospital_type_name)

\* SQL: ~Hospital.hospital_type_name.in_(HOSPITAL_TYPE_EXCLUDE). NOT IN over
\* a NULL column is NULL, so a hospital without category is not selected.
TypeNotExcluded(hospital_type_name) ==
    /\ ~IsNull(hospital_type_name)
    /\ Val(hospital_type_name) \notin HOSPITAL_TYPE_EXCLUDE

\* The rows of Hospital JOIN HospitalDepartment under the two filters, before
\* DISTINCT: one hospital id per matching hospital_departments row.
HospitalIdRows(disease_id) ==
    LET department_ids == DepartmentIdsOfDisease(disease_id)
        rows == SelectSeq(hospital_departments,
                          LAMBDA r : /\ r.department_id \in department_ids
                                     /\ r.hospital_id \in DOMAIN hospitals
                                     /\ TypeNotExcluded(hospitals[r.hospital_id].hospital_type_name))
    IN  [i \in 1..Len(rows) |-> rows[i].hospital_id]

\* A faulty candidate query that keeps the joined rows, without .distinct()
\* and without the second query by id.
hospitals_per_department_row(disease_id) == {HospitalIdRows(disease_id)}

\* hospital_ids after .distinct(), then db.query(Hospital).filter(id IN ...):
\* every possible result list (each hospital once, in any store order).
hospitals_with_departments(disease_id) ==
    StoreOrders(Range(HospitalIdRows(disease_id)))

\* distance <= max_distance_km
WithinRadius(distance, max_distance_km) == distance <= max_distance_km

\* Step 3, the distance loop: the hospitals of hospital_list within the
\* radius, in the order of the list, each with its _calculated_distance.
NearbyHospitals(hospital_list, user_latitude, user_longitude, max_distance_km) ==
    LET dist(h) == calculate_distance(user_latitude, user_longitude,
                                      hospitals[h].latitude, hospitals[h].longitude)
        near == SelectSeq(hospital_list, LAMBDA h : WithinRadius(dist(h), max_distance_km))
    IN  [i \in 1..Len(near) |-> [id |-> near[i], _calculated_distance |-> dist(near[i])]]

----------------------------------------------------------------------------
(* RecommendationRanker: the steps shared by both call paths               *)

\* A faulty equipment_match that looks at the intersection alone.
EquipmentMatchIntersection(required_equipment, held_equipment) ==
    Cardinality(Range(required_equipment) \cap Range(held_equipment)) > 0

\* equipment_match of a scored entry.
EquipmentMatch(required_equipment, held_equipment) ==
    IF required_equipment # <<>>
    THEN Cardinality(Range(required_equipment) \cap Range(held_equipment)) > 0
    ELSE TRUE

\* One entry of scored_hospitals / scored.
ScoredEntry(candidate, disease_id, required_equipment, max_distance_km) ==
    LET held_equipment == get_hospital_equipment(candidate.id)
        specialist_count ==
            get_specialist_count_for_hospital_and_disease(candidate.id, disease_id)
        res == calculate_recommendation_score(
                   candidate._calculated_distance, required_equipment, held_equipment,
                   Some(specialist_count), hospitals[candidate.id].hospital_type_name,
                   max_distance_km)
    IN  [hospital |-> candidate.id,
         score |-> res.final_score,
         distance |-> candidate._calculated_distance,
         department_match |-> TRUE,
         equipment_match |-> EquipmentMatch(required_equipment, held_equipment),
         priority |-> res.priority,
         specialist_count |-> specialist_count,
         held_equipment |-> held_equipment,
         equipment_score |-> res.equipment_score,
         specialist_score |-> res.specialist_score,
         distance_score |-> res.distance_score,
         score_breakdown |-> res.breakdown]

\* The scoring loop over the candidates.
ScoreCandidates(candidates, disease_id, required_equipment, max_distance_km) ==
    [i \in 1..Len(candidates) |->
        ScoredEntry(candidates[i], disease_id, required_equipment, max_distance_km)]

\* A faulty sort key, the score alone: ties keep the store's order.
KeyBeforeScoreOnly(a, b) == a.score > b.score

\* The sort key (x["score"], x.get("priority", 0)) compared for reverse=True:
\* a goes strictly before b.
KeyBefore(a, b) ==
    \/ a.score > b.score
    \/ a.score = b.score /\ a.priority > b.priority

\* A faulty insertion that builds the list in ascending order of the key
\* (reverse=True left out).
RECURSIVE InsertByKeyAscending(_, _)
InsertByKeyAscending(sorted, x) ==
    IF sorted = <<>> THEN <<x>>
    ELSE IF KeyBefore(Head(sorted), x) THEN <<x>> \o sorted
    ELSE <<Head(sorted)>> \o InsertByKeyAscending(Tail(sorted), x)

RECURSIVE InsertByKey(_, _)
InsertByKey(sorted, x) ==
    IF sorted = <<>> THEN <<x>>
    ELSE IF KeyBefore(x, Head(sorted)) THEN <<x>> \o sorted
    ELSE <<Head(sorted)>> \o InsertByKey(Tail(sorted), x)

\* list.sort(key=..., reverse=True): stable, entries with equal keys keep
\* their order.
RECURSIVE SortScored(_)
SortScored(scored) ==
    IF scored = <<>> THEN <<>>
    ELSE InsertByKey(SortScored(SubSeq(scored, 1, Len(scored) - 1)), scored[Len(scored)])

\* A faulty numbering, enumerate(top) without the start value 1.
EnumerateFrom0(top) == [i \in 1..Len(top) |-> [rank |-> i - 1, item |-> top[i]]]

\* enumerate(top, 1): each selected entry with its rank.
EnumerateFrom1(top) == [i \in 1..Len(top) |-> [rank |-> i, item |-> top[i]]]

\* Service: if limit is None or limit <= 0 all, else scored_hospitals[:limit].
TopHospitals(scored_hospitals, limit) ==
    IF IsNull(limit) \/ Val(limit) <= 0 THEN scored_hospitals
    ELSE Slice(scored_hospitals, Val(limit))

\* Light path: scored[: int(request_data.limit or 3)].
TopByDisease(scored, limit) ==
    Slice(scored, IF TruthyNum(limit) THEN Val(limit) ELSE 3)

----------------------------------------------------------------------------
(* Records of a request, of its run and of its response                    *)

NoRequest == [op |-> "none"]

NoRun ==
    [outcome |-> "none", disease_id |-> NULL, filter_radius |-> NULL,
     score_radius |-> NULL, hospital_list |-> <<>>, candidates |-> <<>>,
     required_equipment |-> <<>>, scored |-> <<>>, top |-> <<>>,
     recommendations |-> <<>>]

NoResponse ==
    [status |-> 0, total_candidates |-> 0, recommendations |-> <<>>,
     required_equipment |-> <<>>]

NoCall == [called |-> FALSE]

NoExchange == [op |-> "none"]

NoChat == [websocket |-> NoExchange, full_analysis |-> NoExchange]

\* A run that ended by raising exception exc before any candidate was scored.
Raised(exc, disease_id) == [NoRun EXCEPT !.outcome = exc, !.disease_id = disease_id]

ErrorResponse(status) == [NoResponse EXCEPT !.status = status]

----------------------------------------------------------------------------
(* Persisted path: HospitalRecommendationService.recommend_hospitals       *)

\* Steps 1-3: the exception raised before any filtering, "" if none.
PreconditionError(inference_result_id, user_id) ==
    IF inference_result_id \notin DOMAIN model_inference_results THEN "ValueError"
    ELSE IF \/ user_id \notin DOMAIN users
            \/ ~TruthyNum(users[user_id].latitude)
            \/ ~TruthyNum(users[user_id].longitude) THEN "ValueError"
    ELSE IF ~TruthyNum(model_inference_results[inference_result_id].first_disease_id)
         THEN "ValueError"
    ELSE ""

\* Step 8: the HospitalRecommendation objects built from top_hospitals; an
\* object has no id until the session flushes it.
NewRecommendations(top_hospitals, inference_result_id, user_id) ==
    LET ranked == EnumerateFrom1(top_hospitals)
    IN  [i \in 1..Len(ranked) |->
            [id |-> NULL,
             inference_result_id |-> inference_result_id,
             hospital_id |-> ranked[i].item.hospital,
             user_id |-> user_id,
             distance |-> ranked[i].item.distance,
             rank |-> ranked[i].rank,
             recommendation_score |-> ranked[i].item.score,
             department_match |-> ranked[i].item.department_match,
             equipment_match |-> ranked[i].item.equipment_match]]

\* A flush that writes every attribute of a loaded Hospital instance.
AttributeValues(instance) == [c \in DOMAIN instance \ {"id"} |-> instance[c]]

\* What a flush writes for a loaded Hospital instance: its mapped columns,
\* which _calculated_distance is not.
ColumnValues(instance) ==
    [c \in {"hospital_type_name", "latitude", "longitude", "deleted_at"} |-> instance[c]]

\* Table hospitals after db.commit() of a session that loaded the candidate
\* hospitals and set _calculated_distance on each of them.
FlushHospitals(candidate_hospitals) ==
    [h \in DOMAIN hospitals |->
        IF \E i \in 1..Len(candidate_hospitals) : candidate_hospitals[i].id = h
        THEN LET i == CHOOSE i \in 1..Len(candidate_hospitals) :
                          candidate_hospitals[i].id = h
             IN  ColumnValues(candidate_hospitals[i] @@ hospitals[h])
        ELSE hospitals[h]]

\* The pending objects after the flush: each has the id the autoincrement
\* of the table gave its row.
Flushed(table, pending) ==
    [i \in 1..Len(pending) |-> [pending[i] EXCEPT !.id = Some(Len(table) + i)]]

\* A commit that first deletes the rows written before for the same
\* inference result.
ReplaceRecommendations(table, pending) ==
    SelectSeq(table, LAMBDA row :
        \A i \in 1..Len(pending) :
            row.inference_result_id # pending[i].inference_result_id)
    \o Flushed(table, pending)

\* Table hospital_recommendations after db.commit() of a session with the
\* pending objects: one INSERT per object, no UPDATE and no DELETE.
InsertRecommendations(table, pending) == table \o Flushed(table, pending)

\* The whole service call, hospital_list being the list the store returned
\* for the second query of the filter. The result is the record of the run.
recommend_hospitals(inference_result_id, user_id, max_distance_km, limit, hospital_list) ==
    LET err == PreconditionError(inference_result_id, user_id)
    IN  IF err # "" THEN Raised(err, NULL)
        ELSE
        LET user == users[user_id]
            final_disease_id == Val(model_inference_results[inference_result_id].first_disease_id)
        IN  \* distance <= None raises TypeError at the first hospital compared
            IF hospital_list # <<>> /\ IsNull(max_distance_km)
            THEN Raised("TypeError", Some(final_disease_id))
            ELSE
            LET candidate_hospitals ==
                    IF hospital_list = <<>> THEN <<>>
                    ELSE NearbyHospitals(hospital_list, Val(user.latitude),
                                         Val(user.longitude), Val(max_distance_km))
                required_equipment == get_required_equipment_for_disease(final_disease_id)
                scored_hospitals ==
                    SortScored(ScoreCandidates(candidate_hospitals, final_disease_id,
                                               required_equipment, max_distance_km))
                top_hospitals == TopHospitals(scored_hospitals, limit)
            IN  IF candidate_hospitals = <<>>
                THEN [NoRun EXCEPT !.outcome = "returned",
                                   !.disease_id = Some(final_disease_id),
                                   !.filter_radius = max_distance_km,
                                   !.hospital_list = hospital_list]
                ELSE [outcome |-> "returned",
                      disease_id |-> Some(final_disease_id),
                      filter_radius |-> max_distance_km,
                      score_radius |-> Some(ScoreRadius(max_distance_km)),
                      hospital_list |-> hospital_list,
                      candidates |-> candidate_hospitals,
                      required_equipment |-> required_equipment,
                      scored |-> scored_hospitals,
                      top |-> top_hospitals,
                      recommendations |->
                          NewRecommendations(top_hospitals, inference_result_id, user_id)]

\* POST /recommend-hospitals: the response built from the service's result.
\* The HTTPException(404) raised for an empty result is raised inside the
\* try block, whose handlers are ValueError, LookupError, ConnectionError and
\* Exception: it is caught by the last one and answered as 500.
RecommendHospitalsResponse(r) ==
    IF r.outcome = "ValueError" THEN ErrorResponse(400)
    ELSE IF r.outcome # "returned" THEN ErrorResponse(500)
    ELSE IF r.recommendations = <<>> THEN ErrorResponse(500)
    ELSE LET recommended_hospitals ==
                 [i \in 1..Len(r.recommendations) |->
                     [id |-> r.recommendations[i].hospital_id,
                      hospital_type_name |->
                          hospitals[r.recommendations[i].hospital_id].hospital_type_name,
                      distance |-> r.recommendations[i].distance,
                      rank |-> r.recommendations[i].rank,
                      recommendation_score |-> r.recommendations[i].recommendation_score,
                      department_match |-> r.recommendations[i].department_match,
                      equipment_match |-> r.recommendations[i].equipment_match]]
         IN  [status |-> 200,
              total_candidates |-> Len(recommended_hospitals),
              recommendations |-> recommended_hospitals,
              required_equipment |-> <<>>]

----------------------------------------------------------------------------
(* Light path: POST /recommend-by-disease                                  *)

\* Disease.name.ilike('%pattern%'): the (name, pattern) pairs that match.
ILikeMatches ==
    {<<"hypertension", "hypertension">>, <<"influenza", "flu">>,
     <<"eczema", "eczema">>}

\* The diseases .first() may return for the pattern (no ORDER BY).
DiseasesLike(disease_name) ==
    {d \in DOMAIN diseases : <<diseases[d].name, disease_name>> \in ILikeMatches}

\* The handler from the candidate query on, for the disease found.
recommend_by_disease(current_user, disease_id, max_distance, limit, hospital_list) ==
    LET user == users[current_user]
        filter_radius == IF TruthyNum(max_distance) THEN Val(max_distance) ELSE 20
        score_radius == Some(IF TruthyNum(max_distance) THEN Val(max_distance) ELSE 5)
        candidates == NearbyHospitals(hospital_list, Val(user.latitude),
                                      Val(user.longitude), filter_radius)
        required_equipment == get_required_equipment_for_disease(disease_id)
        scored == SortScored(ScoreCandidates(candidates, disease_id,
                                             required_equipment, score_radius))
        top == TopByDisease(scored, limit)
    IN  [outcome |-> "returned",
         disease_id |-> Some(disease_id),
         filter_radius |-> Some(filter_radius),
         score_radius |-> Some(ScoreRadius(score_radius)),
         hospital_list |-> hospital_list,
         candidates |-> candidates,
         required_equipment |-> required_equipment,
         scored |-> scored,
         top |-> top,
         recommendations |-> <<>>]

\* The returned dict of the handler.
RecommendByDiseaseResponse(r) ==
    LET ranked == EnumerateFrom1(r.top)
    IN  [status |-> 200,
         total_candidates |-> Len(r.candidates),
         recommendations |->
             [i \in 1..Len(ranked) |->
                 [id |-> ranked[i].item.hospital,
                  hospital_type_name |-> hospitals[ranked[i].item.hospital].hospital_type_name,
                  distance |-> ranked[i].item.distance,
                  rank |-> ranked[i].rank,
                  recommendation_score |-> ranked[i].item.score,
                  department_match |-> ranked[i].item.department_match,
                  equipment_match |-> ranked[i].item.equipment_match,
                  specialist_count |-> ranked[i].item.specialist_count,
                  score_breakdown |-> ranked[i].item.score_breakdown]],
         required_equipment |-> r.required_equipment]

----------------------------------------------------------------------------
(* Bounds and the reference data the model draws from                      *)

NumHospitals == 3
MaxLimit == 2

HospitalIds == 1..NumHospitals

\* What one hospital may look like: its category, its distance north of the
\* user (km), its hospital_departments rows and its hospital_equipment rows.
\* Jeongsinbyeongwon is a category the priority table does not hold. The
\* first and the fourth profile tie on the final score for disease 2 at a
\* radius of 20 km, with different category priorities.
HospitalProfiles ==
    {[hospital_type_name |-> Some("Uiwon"), north_km |-> 0,
      departments |-> <<[department_id |-> 1, specialist_count |-> Some(9)]>>,
      equipment |-> <<[equipment_category_name |-> Some("ECG"), deleted_at |-> NULL]>>],
     [hospital_type_name |-> Some("Jonghapbyeongwon"), north_km |-> 12,
      departments |-> <<[department_id |-> 1, specialist_count |-> NULL],
                        [department_id |-> 1, specialist_count |-> Some(2)],
                        [department_id |-> 2, specialist_count |-> Some(16)]>>,
      equipment |-> <<[equipment_category_name |-> Some("ECG"), deleted_at |-> Some(1)],
                      [equipment_category_name |-> NULL, deleted_at |-> NULL]>>],
     [hospital_type_name |-> Some("Sanggeupjonghapbyeongwon"), north_km |-> 1,
      departments |-> <<[department_id |-> 1, specialist_count |-> Some(9)]>>,
      equipment |-> <<[equipment_category_name |-> Some("ECG"), deleted_at |-> NULL],
                      [equipment_category_name |-> Some("CT"), deleted_at |-> NULL],
                      [equipment_category_name |-> Some("MRI"), deleted_at |-> NULL]>>],
     [hospital_type_name |-> Some("Jeongsinbyeongwon"), north_km |-> 4,
      departments |-> <<[department_id |-> 1, specialist_count |-> Some(4)],
                        [department_id |-> 1, specialist_count |-> Some(5)],
                        [department_id |-> 2, specialist_count |-> Some(1)]>>,
      equipment |-> <<[equipment_category_name |-> Some("CT"), deleted_at |-> NULL],
                      [equipment_category_name |-> Some("CT"), deleted_at |-> NULL],
                      [equipment_category_name |-> Some("ECG"), deleted_at |-> NULL],
                      [equipment_category_name |-> Some("MRI"), deleted_at |-> NULL]>>],
     [hospital_type_name |-> NULL, north_km |-> 2,
      departments |-> <<[department_id |-> 1, specialist_count |-> Some(2)]>>,
      equipment |-> <<[equipment_category_name |-> Some("CT"), deleted_at |-> NULL]>>]}

\* The rows of profile field f of all hospitals, hospital 1 first.
RECURSIVE ProfileRows(_, _, _)
ProfileRows(profile, f, h) ==
    IF h \notin DOMAIN profile THEN <<>>
    ELSE [i \in 1..Len(profile[h][f]) |->
             [hospital_id |-> h] @@ profile[h][f][i]] \o ProfileRows(profile, f, h + 1)

\* Request inputs.
Radii == {NULL, Some(0), Some(4), Some(20)}
Limits == {NULL} \cup {Some(n) : n \in -1..MaxLimit}
InferenceResultIds == 1..5
RequestUserIds == {"u1", "u2", "u3"}
DiseaseNamePatterns == {"hypertension", "flu", "eczema", "zzz"}

\* The defaults of the request schemas (max_distance 20.0, limit 3).
DefaultMaxDistance == Some(20)
DefaultLimit == Some(3)

----------------------------------------------------------------------------
(* Initial state: a populated database, no request served yet              *)

ReferenceData ==
    /\ department_diseases =
           <<[department_id |-> 1, disease_id |-> 1],
             [department_id |-> 1, disease_id |-> 2],
             [department_id |-> 2, disease_id |-> 2]>>
    /\ disease_equipment_categories =
           <<[disease_id |-> 1, equipment_category_name |-> "ECG"],
             [disease_id |-> 1, equipment_category_name |-> "CT"],
             [disease_id |-> 3, equipment_category_name |-> "CT"]>>
    /\ diseases = <<[name |-> "hypertension"], [name |-> "influenza"],
                    [name |-> "eczema"]>>
    /\ users = [u \in {"u1", "u2"} |->
                   IF u = "u1" THEN [latitude |-> Some(10), longitude |-> Some(127)]
                   ELSE [latitude |-> NULL, longitude |-> NULL]]
    /\ model_inference_results =
           <<[first_disease_id |-> Some(1)], [first_disease_id |-> Some(2)],
             [first_disease_id |-> Some(3)], [first_disease_id |-> NULL]>>

\* The hospital tables for the profiles given to the hospital ids; user u1
\* stands at latitude 10, longitude 127.
PopulateHospitals(profile) ==
    /\ hospitals =
           [h \in DOMAIN profile |->
               [hospital_type_name |-> profile[h].hospital_type_name,
                latitude |-> 10 + profile[h].north_km,
                longitude |-> 127,
                deleted_at |-> IF "deleted_at" \in DOMAIN profile[h]
                               THEN profile[h].deleted_at ELSE NULL]]
    /\ hospital_departments = ProfileRows(profile, "departments", 1)
    /\ hospital_equipment = ProfileRows(profile, "equipment", 1)

\* The chat room of the chat flow, room 7, owned by user_id.
RoomOwnedBy(user_id) == 7 :> [user_id |-> user_id]

\* No recommendation written, no request served, no direct score call, no
\* chat message stored and no websocket connected.
NoTraffic ==
    /\ hospital_recommendations = <<>>
    /\ request = NoRequest
    /\ run = NoRun
    /\ response = NoResponse
    /\ score_call = NoCall
    /\ sessions = <<>>
    /\ chat = NoChat
    /\ chat_messages = <<>>
    /\ active_connections = <<>>
    /\ websockets = <<>>

\* The service before any traffic, with chat room 7 of user u1.
Idle ==
    /\ NoTraffic
    /\ chat_rooms = RoomOwnedBy("u1")

Init ==
    /\ ReferenceData
    /\ \E profile \in [HospitalIds -> HospitalProfiles] : PopulateHospitals(profile)
    /\ Idle

----------------------------------------------------------------------------
(* Actions: one request served from start to end                           *)

\* POST /recommend-hospitals, the request fields drawn from the given sets.
RecommendHospitalsFrom(inference_result_ids, user_ids, radii, limits) ==
    /\ request = NoRequest
    /\ \E inference_result_id \in inference_result_ids, user_id \in user_ids,
          max_distance \in radii \cup {DefaultMaxDistance},
          limit \in limits \cup {DefaultLimit} :
          \* a request that fails the preconditions is drawn with the defaults only
          /\ IF PreconditionError(inference_result_id, user_id) # ""
             THEN max_distance = DefaultMaxDistance /\ limit = DefaultLimit
             ELSE max_distance \in radii /\ limit \in limits
          /\ \E hospital_list \in
                 (IF PreconditionError(inference_result_id, user_id) = ""
                  THEN hospitals_with_departments(
                           Val(model_inference_results[inference_result_id].first_disease_id))
                  ELSE {<<>>}) :
             LET r == recommend_hospitals(inference_result_id, user_id, max_distance,
                                          limit, hospital_list)
             IN  /\ request' = [op |-> "recommend_hospitals",
                                inference_result_id |-> inference_result_id,
                                user_id |-> user_id,
                                max_distance |-> max_distance,
                                limit |-> limit]
                 /\ run' = r
                 \* db.add(...) for each row, then db.commit()
                 /\ hospital_recommendations' =
                        InsertRecommendations(hospital_recommendations, r.recommendations)
                 /\ hospitals' = FlushHospitals(r.candidates)
                 /\ response' = RecommendHospitalsResponse(r)
    /\ UNCHANGED <<reference_vars, score_call, sessions, chat, room_vars, connection_vars>>

RecommendHospitals ==
    RecommendHospitalsFrom(InferenceResultIds, RequestUserIds, Radii, Limits)

\* POST /recommend-by-disease, the request fields drawn from the given sets;
\* current_user is an authenticated user, a row of users.
RecommendByDiseaseFrom(user_ids, disease_names, radii, limits) ==
    /\ request = NoRequest
    /\ \E current_user \in user_ids \cap DOMAIN users, disease_name \in disease_names,
          max_distance \in radii \cup {DefaultMaxDistance},
          limit \in limits \cup {DefaultLimit} :
          \* a request that is rejected is drawn with the defaults only
          /\ IF \/ IsNull(users[current_user].latitude)
                \/ IsNull(users[current_user].longitude)
                \/ DiseasesLike(disease_name) = {}
             THEN max_distance = DefaultMaxDistance /\ limit = DefaultLimit
             ELSE max_distance \in radii /\ limit \in limits
          /\ request' = [op |-> "recommend_by_disease",
                         user_id |-> current_user,
                         disease_name |-> disease_name,
                         max_distance |-> max_distance,
                         limit |-> limit]
          /\ IF IsNull(users[current_user].latitude) \/ IsNull(users[current_user].longitude)
             THEN /\ run' = Raised("HTTPException", NULL)
                  /\ response' = ErrorResponse(400)
             ELSE IF DiseasesLike(disease_name) = {}
             THEN /\ run' = Raised("HTTPException", NULL)
                  /\ response' = ErrorResponse(404)
             ELSE \E disease_id \in DiseasesLike(disease_name) :
                     \E hospital_list \in hospitals_with_departments(disease_id) :
                        LET r == recommend_by_disease(current_user, disease_id,
                                                      max_distance, limit, hospital_list)
                        IN  /\ run' = r
                            /\ response' = RecommendByDiseaseResponse(r)
    /\ UNCHANGED <<domain_vars, hospital_recommendations, score_call, sessions, chat, room_vars, connection_vars>>

RecommendByDisease ==
    RecommendByDiseaseFrom(RequestUserIds, DiseaseNamePatterns, Radii, Limits)

Next == RecommendHospitals \/ RecommendByDisease

Spec == Init /\ [][Next]_vars

----------------------------------------------------------------------------
(* ScoreSpec: calculate_recommendation_score called directly               *)

MaxHeld == 13
MaxRequired == 3
MaxSpecialists == 12

\* Equipment category names; the first three are the ones the database of
\* Init uses.
EquipmentNames ==
    <<"ECG", "CT", "MRI", "XRAY", "US", "EEG", "EMG", "PET", "CR", "DR", "MMG",
      "BMD", "ESWL", "HD", "LINAC", "GK">>

FirstNames(k) == SubSeq(EquipmentNames, 1, Min(k, Len(EquipmentNames)))

\* Required-equipment lists: no requirement, or the first k categories.
RequiredLists == {FirstNames(k) : k \in 0..MaxRequired}

\* Held-equipment lists as get_hospital_equipment returns them: the first k
\* categories, one row each, or the same with a second row of the first
\* category.
HeldLists ==
    {FirstNames(k) : k \in 0..MaxHeld}
        \cup {FirstNames(k) \o <<EquipmentNames[1]>> : k \in 1..MaxHeld}

\* Specialist counts: none, negative, small, and at and above the clamp of 100.
SpecialistCounts ==
    {NULL} \cup {Some(n) : n \in -2..MaxSpecialists} \cup {Some(100), Some(101)}

\* The argument tuples drawn: every required list against every held list at
\* one fixed hospital, every specialist count under both weight triples,
\* every category of the priority table, and a product of a few values of
\* every argument.
ScoreInputs ==
    {[distance_km |-> 2, required_equipment |-> req, held_equipment |-> held,
      specialist_count |-> Some(3), hospital_type_name |-> Some("Uiwon"),
      max_distance_km |-> Some(4)] : req \in RequiredLists, held \in HeldLists}
    \cup
    {[distance_km |-> 2, required_equipment |-> req, held_equipment |-> FirstNames(1),
      specialist_count |-> sc, hospital_type_name |-> Some("Uiwon"),
      max_distance_km |-> Some(4)] : req \in {FirstNames(0), FirstNames(1)},
                                     sc \in SpecialistCounts}
    \cup
    {[distance_km |-> 2, required_equipment |-> FirstNames(1),
      held_equipment |-> FirstNames(1), specialist_count |-> Some(3),
      hospital_type_name |-> Some(c), max_distance_km |-> Some(4)]
        : c \in DOMAIN HOSPITAL_TYPE_PRIORITY}
    \cup
    [distance_km : {0, 2, 12},
     required_equipment : {FirstNames(0), FirstNames(1), FirstNames(2)},
     held_equipment : {FirstNames(0), FirstNames(1)},
     specialist_count : {NULL, Some(-1), Some(3)},
     hospital_type_name : {NULL, Some(""), Some("Uiwon"), Some("Jonghapbyeongwon"),
                           Some("Jeongsinbyeongwon")},
     max_distance_km : Radii \cup {Some(-3)}]

ScoreInit ==
    /\ hospitals = <<>>
    /\ hospital_departments = <<>>
    /\ hospital_equipment = <<>>
    /\ department_diseases = <<>>
    /\ disease_equipment_categories = <<>>
    /\ diseases = <<>>
    /\ users = <<>>
    /\ model_inference_results = <<>>
    /\ hospital_recommendations = <<>>
    /\ request = NoRequest
    /\ run = NoRun
    /\ response = NoResponse
    /\ score_call = NoCall
    /\ sessions = <<>>
    /\ chat = NoChat
    /\ chat_rooms = RoomOwnedBy("u1")
    /\ chat_messages = <<>>
    /\ active_connections = <<>>
    /\ websockets = <<>>

ScoreCall ==
    /\ ~score_call.called
    /\ \E in \in ScoreInputs :
          score_call' =
              [called |-> TRUE,
               args |-> in,
               result |-> calculate_recommendation_score(
                              in.distance_km, in.required_equipment, in.held_equipment,
                              in.specialist_count, in.hospital_type_name,
                              in.max_distance_km)]
    /\ UNCHANGED <<domain_vars, hospital_recommendations, request, run, response, sessions, chat, room_vars, connection_vars>>

\* A second call whose arguments differ from those of the first call in the
\* specialist count alone or in the distance alone; the first call is kept.
ScoreCallAgain ==
    /\ score_call.called
    /\ "previous" \notin DOMAIN score_call
    /\ \E in \in ScoreInputs :
          /\ \/ in = [score_call.args EXCEPT !.specialist_count = in.specialist_count]
             \/ in = [score_call.args EXCEPT !.distance_km = in.distance_km]
          /\ in # score_call.args
          /\ score_call' =
                 [called |-> TRUE,
                  args |-> in,
                  result |-> calculate_recommendation_score(
                                 in.distance_km, in.required_equipment, in.held_equipment,
                                 in.specialist_count, in.hospital_type_name,
                                 in.max_distance_km),
                  previous |-> [args |-> score_call.args, result |-> score_call.result]]
    /\ UNCHANGED <<domain_vars, hospital_recommendations, request, run, response, sessions, chat, room_vars, connection_vars>>

ScoreNext == ScoreCall \/ ScoreCallAgain

ScoreSpec == ScoreInit /\ [][ScoreNext]_vars

----------------------------------------------------------------------------
(* A second database: one disease that requires ECG, hospitals A and B of  *)
(* any category, two hospitals further away, and a user on the equator     *)

ScenarioCategories ==
    DOMAIN HOSPITAL_TYPE_PRIORITY \cup {"Jeongsinbyeongwon", ""}

\* A: 2 km away, holds ECG, 3 specialists. B: 4 km away, no equipment, 1
\* specialist. Two more hospitals stand 8 km and 12 km away.
ScenarioProfiles ==
    {[hospital_type_name |-> Some(c), north_km |-> 2,
      departments |-> <<[department_id |-> 1, specialist_count |-> Some(3)]>>,
      equipment |-> <<[equipment_category_name |-> Some("ECG"), deleted_at |-> NULL]>>]
        : c \in ScenarioCategories}
    \cup
    {[hospital_type_name |-> Some(c), north_km |-> 4,
      departments |-> <<[department_id |-> 1, specialist_count |-> Some(1)]>>,
      equipment |-> <<>>] : c \in ScenarioCategories}
    \cup
    {[hospital_type_name |-> Some("Bogeonso"), north_km |-> 8,
      departments |-> <<[department_id |-> 1, specialist_count |-> Some(1)]>>,
      equipment |-> <<>>],
     [hospital_type_name |-> Some("Hanuiwon"), north_km |-> 12,
      departments |-> <<[department_id |-> 1, specialist_count |-> Some(1)]>>,
      equipment |-> <<>>]}

\* u1 stands at latitude 10, u0 on the equator (latitude 0.0 is stored), u2
\* has no stored location; inference result 2 has no first disease.
ScenarioReferenceData ==
    /\ department_diseases = <<[department_id |-> 1, disease_id |-> 1]>>
    /\ disease_equipment_categories =
           <<[disease_id |-> 1, equipment_category_name |-> "ECG"]>>
    /\ diseases = <<[name |-> "hypertension"]>>
    /\ users = [u \in {"u0", "u1", "u2"} |->
                   CASE u = "u0" -> [latitude |-> Some(0), longitude |-> Some(127)]
                     [] u = "u1" -> [latitude |-> Some(10), longitude |-> Some(127)]
                     [] OTHER -> [latitude |-> NULL, longitude |-> NULL]]
    /\ model_inference_results =
           <<[first_disease_id |-> Some(1)], [first_disease_id |-> NULL]>>

ScenarioInit ==
    /\ ScenarioReferenceData
    /\ \E profile \in [1..2 -> ScenarioProfiles] : PopulateHospitals(profile)
    /\ Idle

\* POST /recommend-hospitals with radius 5 km and limit 3.
ScenarioRecommendHospitals ==
    RecommendHospitalsFrom(1..3, {"u0", "u1", "u2", "u3"}, {Some(5)}, {Some(3)})

\* POST /recommend-by-disease with limit 3 and radius 5 km or none.
ScenarioRecommendByDisease ==
    RecommendByDiseaseFrom({"u0", "u1", "u2"}, {"hypertension"}, {NULL, Some(5)}, {Some(3)})

ScenarioNext == ScenarioRecommendByDisease \/ ScenarioRecommendHospitals

ScenarioSpec == ScenarioInit /\ [][ScenarioNext]_vars

----------------------------------------------------------------------------
(* Properties of the ranked result                                         *)

\* The request was served and the ranking ran to its end.
Ranked == request.op # "none" /\ run.outcome = "returned"

\* The hospitals returned to the caller, in order: the rows the service
\* returns on the persisted path, the response entries on the light path.
ResultRows ==
    IF request.op = "recommend_hospitals"
    THEN [i \in 1..Len(run.recommendations) |->
             [hospital |-> run.recommendations[i].hospital_id,
              rank |-> run.recommendations[i].rank,
              score |-> run.recommendations[i].recommendation_score,
              distance |-> run.recommendations[i].distance,
              department_match |-> run.recommendations[i].department_match,
              equipment_match |-> run.recommendations[i].equipment_match]]
    ELSE [i \in 1..Len(response.recommendations) |->
             [hospital |-> response.recommendations[i].id,
              rank |-> response.recommendations[i].rank,
              score |-> response.recommendations[i].recommendation_score,
              distance |-> response.recommendations[i].distance,
              department_match |-> response.recommendations[i].department_match,
              equipment_match |-> response.recommendations[i].equipment_match]]

\* C1: on both paths the i-th returned hospital carries rank i and is the
\* i-th entry of the sorted candidate list, so the ranks are exactly
\* 1..len(result) without gap or repetition; with a limit L > 0 and N scored
\* candidates the result has min(N, L) entries.
C1_RankDensity ==
    Ranked =>
        /\ Len(ResultRows) <= Len(run.scored)
        /\ \A i \in 1..Len(ResultRows) :
              /\ ResultRows[i].rank = i
              /\ ResultRows[i].hospital = run.scored[i].hospital
              /\ ResultRows[i].score = run.scored[i].score
        /\ (~IsNull(request.limit) /\ Val(request.limit) > 0) =>
              Len(ResultRows) = Min(Len(run.scored), Val(request.limit))

\* Three candidates were scored, the limit 2 cut the list, ranks 1 and 2
\* were handed out.
C1_Witness ==
    /\ Ranked
    /\ request.op = "recommend_by_disease"
    /\ request.limit = Some(2)
    /\ Len(run.scored) = 3
    /\ Len(ResultRows) = 2
    /\ ResultRows[2].rank = 2

\* The priority the ranking gives the category of a hospital.
PriorityOf(hospital_id) == TypePriority(hospitals[hospital_id].hospital_type_name)

\* C2: on both paths the returned list is in descending order of the final
\* score, and of two hospitals with the same score the one of the higher
\* category priority comes first.
C2_SortedByScoreThenPriority ==
    Ranked =>
        \A i, j \in 1..Len(ResultRows) :
            i < j =>
                /\ ResultRows[i].score >= ResultRows[j].score
                /\ ResultRows[i].score = ResultRows[j].score =>
                       PriorityOf(ResultRows[i].hospital) >= PriorityOf(ResultRows[j].hospital)

\* The store returned the lower-priority hospital first, the two tie on the
\* score, and the result carries the higher-priority one first.
C2_Witness ==
    /\ Ranked
    /\ request.op = "recommend_hospitals"
    /\ Len(ResultRows) >= 2
    /\ ResultRows[1].score = ResultRows[2].score
    /\ PriorityOf(ResultRows[1].hospital) > PriorityOf(ResultRows[2].hospital)
    /\ \E i, j \in 1..Len(run.candidates) :
          /\ i < j
          /\ run.candidates[i].id = ResultRows[2].hospital
          /\ run.candidates[j].id = ResultRows[1].hospital

\* The hospital has a hospital_departments row for a department that
\* department_diseases links to the disease.
HasLinkedDepartment(hospital_id, disease_id) ==
    \E hd \in Range(hospital_departments) :
        /\ hd.hospital_id = hospital_id
        /\ \E dd \in Range(department_diseases) :
              /\ dd.disease_id = disease_id
              /\ dd.department_id = hd.department_id

\* The distance between the user of the request and the hospital.
DistanceToUser(hospital_id) ==
    LET user == users[request.user_id]
    IN  calculate_distance(Val(user.latitude), Val(user.longitude),
                           hospitals[hospital_id].latitude,
                           hospitals[hospital_id].longitude)

C4_HospitalAtMostOnce ==
    Ranked =>
        /\ \A i, j \in 1..Len(run.candidates) :
              run.candidates[i].id = run.candidates[j].id => i = j
        /\ \A i, j \in 1..Len(ResultRows) :
              ResultRows[i].hospital = ResultRows[j].hospital => i = j

\* A returned hospital has two hospital_departments rows for departments
\* linked to the disease and more than one hospital_equipment row.
C4_Witness ==
    /\ Ranked
    /\ \E i \in 1..Len(ResultRows) :
          LET h == ResultRows[i].hospital
          IN  /\ \E a, b \in 1..Len(hospital_departments) :
                    /\ a < b
                    /\ hospital_departments[a].hospital_id = h
                    /\ hospital_departments[b].hospital_id = h
                    /\ hospital_departments[a].department_id
                           \in DepartmentIdsOfDisease(Val(run.disease_id))
                    /\ hospital_departments[b].department_id
                           \in DepartmentIdsOfDisease(Val(run.disease_id))
              /\ Len(get_hospital_equipment(h)) > 1

\* C5: with N scored candidates the result holds all N when the limit is
\* null or <= 0, and the first min(N, limit) entries of the sorted list when
\* the limit is positive, on both paths.
C5_LimitSemantics ==
    Ranked =>
        LET N == Len(run.scored)
            n == IF IsNull(request.limit) \/ Val(request.limit) <= 0
                 THEN N
                 ELSE Min(N, Val(request.limit))
        IN  /\ Len(ResultRows) = n
            /\ \A i \in 1..n : ResultRows[i].hospital = run.scored[i].hospital

\* C6: every candidate of a run is scored with the same weight triple,
\* (50, 30, 20) when the disease has required equipment and (30, 40, 30)
\* when it has none; the triple sums to 100.
C6_WeightRegime ==
    Ranked =>
        \A i \in 1..Len(run.scored) :
            LET w == run.scored[i].score_breakdown.weights
            IN  /\ w.equip + w.spec + w.dist = 100
                /\ w = run.scored[1].score_breakdown.weights
                /\ get_required_equipment_for_disease(Val(run.disease_id)) # <<>>
                       => w = [equip |-> 50, spec |-> 30, dist |-> 20]
                /\ get_required_equipment_for_disease(Val(run.disease_id)) = <<>>
                       => w = [equip |-> 30, spec |-> 40, dist |-> 30]

\* Two candidates of a disease with required equipment were scored, one
\* holding a required category and one holding none.
C6_Witness ==
    /\ Ranked
    /\ Len(run.scored) >= 2
    /\ run.required_equipment # <<>>
    /\ \E i, j \in 1..Len(run.scored) :
          /\ run.scored[i].score_breakdown.matched_equipment_count > 0
          /\ run.scored[j].score_breakdown.matched_equipment_count = 0
          /\ run.scored[i].score_breakdown.weights.equip = 50

\* The categories of the live, named hospital_equipment rows of a hospital.
HeldCategories(hospital_id) ==
    {Val(e.equipment_category_name) :
        e \in {r \in Range(hospital_equipment) :
                  /\ r.hospital_id = hospital_id
                  /\ IsNull(r.deleted_at)
                  /\ TruthyStr(r.equipment_category_name)}}

\* The categories disease_equipment_categories requires for a disease.
RequiredCategories(disease_id) ==
    {r.equipment_category_name :
        r \in {q \in Range(disease_equipment_categories) : q.disease_id = disease_id}}

\* C7: equipment_match of a returned hospital is true exactly when the
\* disease requires no equipment or the hospital holds at least one required
\* category; department_match is true for every returned hospital.
C7_MatchFlags ==
    Ranked =>
        \A i \in 1..Len(ResultRows) :
            LET required == RequiredCategories(Val(run.disease_id))
                held == HeldCategories(ResultRows[i].hospital)
            IN  /\ ResultRows[i].equipment_match
                       <=> (required = {} \/ required \cap held # {})
                /\ ResultRows[i].department_match = TRUE

\* Of two returned hospitals of a disease with required equipment one has
\* equipment_match true and the other false.
C7_Witness ==
    /\ Ranked
    /\ RequiredCategories(Val(run.disease_id)) # {}
    /\ \E i, j \in 1..Len(ResultRows) :
          /\ ResultRows[i].equipment_match
          /\ ~ResultRows[j].equipment_match
          /\ ResultRows[j].department_match

\* The hospitals with a department linked to the disease and a category the
\* filter lets through.
EligibleHospitals(disease_id) ==
    {h \in DOMAIN hospitals :
        /\ HasLinkedDepartment(h, disease_id)
        /\ ~IsNull(hospitals[h].hospital_type_name)
        /\ Val(hospitals[h].hospital_type_name) \notin HOSPITAL_TYPE_EXCLUDE}

\* The radius the request asks the filter to use: max_distance_km on the
\* persisted path, max_distance or 20.0 on the light path.
RequestedFilterRadius ==
    IF request.op = "recommend_hospitals" \/ TruthyNum(request.max_distance)
    THEN request.max_distance
    ELSE Some(20)

\* The disease of the request has no linked department, or no hospital
\* passes the department, category and radius filters.
NoHospitalPassesFilter ==
    LET d == Val(run.disease_id)
    IN  \/ \A dd \in Range(department_diseases) : dd.disease_id # d
        \/ EligibleHospitals(d) = {}
        \/ /\ ~IsNull(RequestedFilterRadius)
           /\ \A h \in EligibleHospitals(d) :
                 DistanceToUser(h) > Val(RequestedFilterRadius)

\* C8: when the preconditions hold and the disease has no linked department,
\* or no hospital passes the filters, the recommendation operation ends
\* without exception and with an empty result: the service returns [] and
\* writes no row, POST /recommend-by-disease answers 200 with
\* total_candidates = 0 and recommendations = [].
C8_EmptyCandidatesIsNotAnError ==
    (request.op # "none" /\ ~IsNull(run.disease_id) /\ NoHospitalPassesFilter) =>
        /\ run.outcome = "returned"
        /\ run.candidates = <<>>
        /\ ResultRows = <<>>
        /\ hospital_recommendations = <<>>
        /\ request.op = "recommend_by_disease" =>
              /\ response.status = 200
              /\ response.total_candidates = 0
              /\ response.recommendations = <<>>

\* POST /recommend-by-disease was asked for a disease without any linked
\* department while hospitals stand next to the user.
C8_Witness ==
    /\ request.op = "recommend_by_disease"
    /\ ~IsNull(run.disease_id)
    /\ \A dd \in Range(department_diseases) : dd.disease_id # Val(run.disease_id)
    /\ \E h \in DOMAIN hospitals : DistanceToUser(h) = 0
    /\ response.status = 200
    /\ response.total_candidates = 0

----------------------------------------------------------------------------
(* Properties of calculate_recommendation_score                            *)

\* C9: with required equipment the equipment sub-score is
\* |required & held| / |required| * 50, both taken as sets: 50 when every
\* required category is held, 0 when none is (or the hospital has no
\* equipment rows), and matched_equipment_count never exceeds
\* total_required_equipment.
C9_EquipmentScoreWithRequired ==
    (score_call.called /\ score_call.args.required_equipment # <<>>) =>
        LET required == Range(score_call.args.required_equipment)
            held == Range(score_call.args.held_equipment)
            result == score_call.result
        IN  /\ result.equipment_score * Cardinality(required)
                   = Cardinality(required \cap held) * 50 * SCALE
            /\ required \subseteq held => result.equipment_score = 50 * SCALE
            /\ required \cap held = {} => result.equipment_score = 0
            /\ result.breakdown.matched_equipment_count = Cardinality(required \cap held)
            /\ result.breakdown.total_required_equipment = Cardinality(required)
            /\ result.breakdown.matched_equipment_count
                   <= result.breakdown.total_required_equipment

\* Three categories are required; the hospital holds two of them, one of
\* them in two rows, and scores two thirds of 50.
C9_Witness ==
    /\ score_call.called
    /\ Len(score_call.args.required_equipment) = 3
    /\ Len(score_call.args.held_equipment) = 3
    /\ Cardinality(Range(score_call.args.held_equipment)) = 2
    /\ score_call.result.equipment_score = (2 * 50 * SCALE) \div 3
    /\ score_call.result.breakdown.matched_equipment_count = 2

\* C10: without required equipment the equipment sub-score is
\* min(|held| * 2.5, 30) with |held| the number of distinct categories the
\* hospital holds, rows of the same category counting once; the cap of 30 is
\* reached at 12 distinct categories and not before.
C10_EquipmentScoreWithoutRequired ==
    (score_call.called /\ score_call.args.required_equipment = <<>>) =>
        LET held == Range(score_call.args.held_equipment)
            result == score_call.result
        IN  /\ result.equipment_score
                   = Min((Cardinality(held) * 5 * SCALE) \div 2, 30 * SCALE)
            /\ result.equipment_score = 30 * SCALE <=> Cardinality(held) >= 12

\* The specialist count of the call as the score uses it: 0 for none.
CallSpecialists(call) ==
    IF IsNull(call.args.specialist_count) THEN 0 ELSE Val(call.args.specialist_count)

\* C11: the specialist sub-score is min(sqrt(max(count, 0)) * W_spec / 3,
\* W_spec): 0 for a null, zero or negative count, never above W_spec, equal
\* to W_spec exactly when the count is 9 or more, and non-decreasing in the
\* count (two calls that differ in the count alone). The square root is
\* compared in hundredths of a point.
C11_SpecialistScore ==
    score_call.called =>
        LET count == CallSpecialists(score_call)
            W == score_call.result.breakdown.weights.spec
            s == score_call.result.specialist_score
            c == s \div (SCALE \div 100)
            n == Min(Max(count, 0), 100)
        IN  /\ count <= 0 => s = 0
            /\ 0 <= s /\ s <= W * SCALE
            /\ s = W * SCALE <=> count >= 9
            /\ n < 9 => /\ (3 * c) * (3 * c) <= n * (100 * W) * (100 * W)
                        /\ (3 * (c + 2)) * (3 * (c + 2)) > n * (100 * W) * (100 * W)
            /\ ("previous" \in DOMAIN score_call
                    /\ score_call.previous.result.breakdown.weights.spec = W
                    /\ CallSpecialists(score_call.previous) <= count)
                   => score_call.previous.result.specialist_score <= s

\* A call with 8 specialists scored below the cap, the next call with 9
\* specialists reached it.
C11_Witness ==
    /\ score_call.called
    /\ "previous" \in DOMAIN score_call
    /\ CallSpecialists(score_call.previous) = 8
    /\ CallSpecialists(score_call) = 9
    /\ score_call.previous.result.specialist_score
           < score_call.result.specialist_score
    /\ score_call.result.specialist_score
           = score_call.result.breakdown.weights.spec * SCALE

\* C12: within one run, of two scored candidates the nearer one has the
\* strictly greater distance sub-score; the distance sub-score is never
\* negative and equals W_dist at distance 0.
C12_DistanceScoreStrictlyDecreasing ==
    Ranked =>
        /\ \A i, j \in 1..Len(run.scored) :
              run.scored[i].distance < run.scored[j].distance
                  => run.scored[i].distance_score > run.scored[j].distance_score
        /\ \A i \in 1..Len(run.scored) :
              /\ run.scored[i].distance_score >= 0
              /\ run.scored[i].distance = 0
                     => run.scored[i].distance_score
                            = run.scored[i].score_breakdown.weights.dist * SCALE

\* C13: scoring with a radius that is null, 0 or negative yields a score
\* (no division by zero, no exception), the distance sub-score being
\* max(0, (5 - d) / 5) * W_dist, the formula with the denominator R = 5 km.
C13_RadiusFallback ==
    (score_call.called
         /\ (IsNull(score_call.args.max_distance_km)
                \/ Val(score_call.args.max_distance_km) <= 0)) =>
        LET d == score_call.args.distance_km
            W == score_call.result.breakdown.weights.dist
        IN  /\ score_call.result.distance_score * 5 = Max(0, 5 - d) * W * SCALE
            /\ score_call.result.final_score
                   = score_call.result.equipment_score
                         + score_call.result.specialist_score
                         + score_call.result.distance_score
                         + PriorityBonus(score_call.result.priority)

\* A call with radius 0 at 2 km scored three fifths of W_dist; the call
\* before it differed in the distance alone.
C13_Witness ==
    /\ score_call.called
    /\ "previous" \in DOMAIN score_call
    /\ score_call.args.max_distance_km = Some(0)
    /\ score_call.args.distance_km = 2
    /\ score_call.result.distance_score
           = (3 * score_call.result.breakdown.weights.dist * SCALE) \div 5

\* C14: the category priority is 5 for Uiwon and Byeongwon, 4 for Bogeonjiso
\* and Bogeonso, 3 for Jonghapbyeongwon, 1 for Hanuiwon and Hanbangbyeongwon
\* and 2 for any other category, a missing or empty one included; the bonus
\* is (priority - 2) * 0.5 and lies in [-0.5, +1.5].
C14_PriorityTable ==
    score_call.called =>
        LET t == score_call.args.hospital_type_name
            expected ==
                IF t \in {Some("Uiwon"), Some("Byeongwon")} THEN 5
                ELSE IF t \in {Some("Bogeonjiso"), Some("Bogeonso")} THEN 4
                ELSE IF t = Some("Jonghapbyeongwon") THEN 3
                ELSE IF t \in {Some("Hanuiwon"), Some("Hanbangbyeongwon")} THEN 1
                ELSE 2
            bonus == score_call.result.breakdown.priority_bonus
        IN  /\ score_call.result.priority = expected
            /\ 2 * bonus = (score_call.result.priority - 2) * SCALE
            /\ -SCALE <= 2 * bonus /\ 2 * bonus <= 3 * SCALE

\* The specialists of the first k hospital_departments rows that belong to
\* the hospital and to a department linked to the disease, a null count
\* counting 0.
RECURSIVE LinkedSpecialists(_, _, _)
LinkedSpecialists(hospital_id, disease_id, k) ==
    IF k = 0 THEN 0
    ELSE LET hd == hospital_departments[k]
             linked == \E dd \in Range(department_diseases) :
                           /\ dd.disease_id = disease_id
                           /\ dd.department_id = hd.department_id
         IN  LinkedSpecialists(hospital_id, disease_id, k - 1)
                 + (IF hd.hospital_id = hospital_id /\ linked /\ ~IsNull(hd.specialist_count)
                    THEN Val(hd.specialist_count)
                    ELSE 0)

\* C15: the specialist count a hospital is scored with is the sum of
\* specialist_count over its hospital_departments rows whose department is
\* linked to the disease, null counts counting 0; rows of other departments
\* never contribute, and the count is 0 for a disease without linked
\* department.
C15_SpecialistCountAggregate ==
    /\ Ranked =>
          \A i \in 1..Len(run.scored) :
              run.scored[i].specialist_count
                  = LinkedSpecialists(run.scored[i].hospital, Val(run.disease_id),
                                      Len(hospital_departments))
    /\ \A h \in DOMAIN hospitals, d \in DOMAIN diseases :
          /\ get_specialist_count_for_hospital_and_disease(h, d)
                 = LinkedSpecialists(h, d, Len(hospital_departments))
          /\ (\A dd \in Range(department_diseases) : dd.disease_id # d)
                 => get_specialist_count_for_hospital_and_disease(h, d) = 0

\* A hospital was scored with 2 specialists: it has a linked row with a null
\* count, a linked row with 2, and a row with 16 for a department that is
\* not linked to the disease.
C15_Witness ==
    /\ Ranked
    /\ \E i \in 1..Len(run.scored) :
          LET h == run.scored[i].hospital
          IN  /\ run.scored[i].specialist_count = 2
              /\ \E hd \in Range(hospital_departments) :
                    /\ hd.hospital_id = h
                    /\ IsNull(hd.specialist_count)
                    /\ hd.department_id \in DepartmentIdsOfDisease(Val(run.disease_id))
              /\ \E hd \in Range(hospital_departments) :
                    /\ hd.hospital_id = h
                    /\ hd.specialist_count = Some(16)
                    /\ hd.department_id \notin DepartmentIdsOfDisease(Val(run.disease_id))

\* Hospital A of the scenario: 2 km from the user, holds ECG, 3 specialists.
IsHospitalA(h) ==
    /\ DistanceToUser(h) = 2
    /\ HeldCategories(h) = {"ECG"}
    /\ LinkedSpecialists(h, 1, Len(hospital_departments)) = 3

\* Hospital B of the scenario: 4 km from the user, no equipment, 1 specialist.
IsHospitalB(h) ==
    /\ DistanceToUser(h) = 4
    /\ HeldCategories(h) = {}
    /\ LinkedSpecialists(h, 1, Len(hospital_departments)) = 1

\* The request of the scenario was served: required equipment [ECG], radius
\* 5 km, limit 3, and the database holds hospital A and hospital B.
ScenarioServed ==
    /\ Ranked
    /\ request.max_distance = Some(5)
    /\ request.limit = Some(3)
    /\ RequiredCategories(Val(run.disease_id)) = {"ECG"}
    /\ \E a, b \in DOMAIN hospitals : IsHospitalA(a) /\ IsHospitalB(b)

\* C16: in the scenario, whatever the categories of A and B, both hospitals
\* are returned, A with rank 1 and equipment_match true, B with rank 2 and
\* equipment_match false.
C16_ConcreteScenario ==
    ScenarioServed =>
        /\ Len(ResultRows) = 2
        /\ IsHospitalA(ResultRows[1].hospital)
        /\ ResultRows[1].rank = 1
        /\ ResultRows[1].equipment_match
        /\ IsHospitalB(ResultRows[2].hospital)
        /\ ResultRows[2].rank = 2
        /\ ~ResultRows[2].equipment_match

\* The persisted path served the scenario with B stored before A, B of the
\* highest category priority and A without category.
C16_Witness ==
    /\ ScenarioServed
    /\ request.op = "recommend_hospitals"
    /\ IsHospitalB(1)
    /\ IsHospitalA(2)
    /\ hospitals[1].hospital_type_name = Some("Uiwon")
    /\ hospitals[2].hospital_type_name = Some("")
    /\ run.hospital_list = <<1, 2>>
    /\ Len(hospital_recommendations) = 2
    /\ hospital_recommendations[1].hospital_id = 2

\* The request names an inference result that does not exist, a user that
\* does not exist or has no stored latitude or longitude, or an inference
\* result without first disease.
PreconditionMissing ==
    \/ request.inference_result_id \notin DOMAIN model_inference_results
    \/ request.user_id \notin DOMAIN users
    \/ IF request.user_id \in DOMAIN users
       THEN \/ IsNull(users[request.user_id].latitude)
            \/ IsNull(users[request.user_id].longitude)
       ELSE FALSE
    \/ IF request.inference_result_id \in DOMAIN model_inference_results
       THEN IsNull(model_inference_results[request.inference_result_id].first_disease_id)
       ELSE FALSE

\* C17: recommend_hospitals raises its precondition error, answered as 400
\* by POST /recommend-hospitals, before any filtering and without writing a
\* row, exactly when the inference result or the user does not exist, the
\* user has no stored latitude or longitude, or the inference result has no
\* first disease; a user with stored latitude and longitude is never
\* rejected for the location.
C17_PreconditionErrors ==
    request.op = "recommend_hospitals" =>
        /\ run.outcome = "ValueError" <=> PreconditionMissing
        /\ run.outcome = "ValueError" =>
              /\ response.status = 400
              /\ run.hospital_list = <<>>
              /\ run.candidates = <<>>
              /\ hospital_recommendations = <<>>

----------------------------------------------------------------------------
(* ConcurrentSpec: recommend_hospitals invoked by several requests, each    *)
(* with its own database session, their steps interleaved                  *)

NumSessions == 2

SessionIds == 1..NumSessions

\* Hospitals of the concurrent runs: A and B within 5 km, one 8 km away.
ConcurrentProfiles ==
    {p \in ScenarioProfiles :
        p.hospital_type_name \in {Some("Uiwon"), Some("Byeongwon"), Some("Bogeonso")}
        /\ (p.north_km = 2 => p.hospital_type_name = Some("Uiwon"))
        /\ (p.north_km = 4 => p.hospital_type_name = Some("Byeongwon"))}

ConcurrentInit ==
    /\ ScenarioReferenceData
    /\ \E profile \in [1..2 -> ConcurrentProfiles] : PopulateHospitals(profile)
    /\ Idle

\* The row of the table with primary key id, NULL if there is none.
RowById(table, id) ==
    LET ks == {k \in 1..Len(table) : table[k].id = id}
    IN  IF ks = {} THEN NULL ELSE Some(table[CHOOSE k \in ks : TRUE])

\* Session s runs recommend_hospitals up to the last db.add(): it reads the
\* tables, ranks, and holds the new objects pending. A raised exception ends
\* the invocation.
BeginRecommendation(s) ==
    /\ s \notin DOMAIN sessions
    /\ \E inference_result_id \in 1..2, user_id \in {"u1", "u2"},
          limit \in {Some(1), Some(3)} :
          /\ PreconditionError(inference_result_id, user_id) # "" => limit = Some(3)
          /\ \E hospital_list \in
                 (IF PreconditionError(inference_result_id, user_id) = ""
                  THEN hospitals_with_departments(
                           Val(model_inference_results[inference_result_id].first_disease_id))
                  ELSE {<<>>}) :
             LET r == recommend_hospitals(inference_result_id, user_id, Some(5),
                                          limit, hospital_list)
             IN  sessions' = sessions @@
                     (s :> [pc |-> IF r.outcome = "returned" THEN "added" ELSE "raised",
                            op |-> "recommend_hospitals",
                            inference_result_id |-> inference_result_id,
                            user_id |-> user_id,
                            limit |-> limit,
                            run |-> r,
                            recommendations |-> r.recommendations])
    /\ UNCHANGED <<domain_vars, hospital_recommendations, request, run, response,
                   score_call, chat, room_vars, connection_vars>>

\* db.commit() of session s: its pending objects are inserted.
Commit(s) ==
    /\ s \in DOMAIN sessions
    /\ sessions[s].pc = "added"
    /\ hospital_recommendations' =
           InsertRecommendations(hospital_recommendations, sessions[s].recommendations)
    /\ hospitals' = FlushHospitals(sessions[s].run.candidates)
    /\ sessions' = [sessions EXCEPT
           ![s].pc = "committed",
           ![s].recommendations =
               Flushed(hospital_recommendations, sessions[s].recommendations)]
    /\ UNCHANGED <<reference_vars, request, run, response, score_call, chat, room_vars, connection_vars>>

\* db.refresh(rec) for each object of session s, then return: every object
\* is read again by its primary key; a row that is gone raises.
Refresh(s) ==
    /\ s \in DOMAIN sessions
    /\ sessions[s].pc = "committed"
    /\ LET recs == sessions[s].recommendations
           rows == [i \in 1..Len(recs) |-> RowById(hospital_recommendations, recs[i].id)]
       IN  IF \E i \in 1..Len(rows) : IsNull(rows[i])
           THEN sessions' = [sessions EXCEPT ![s].pc = "raised"]
           ELSE sessions' = [sessions EXCEPT
                    ![s].pc = "returned",
                    ![s].recommendations = [i \in 1..Len(rows) |-> Val(rows[i])]]
    /\ UNCHANGED <<domain_vars, hospital_recommendations, request, run, response,
                   score_call, chat, room_vars, connection_vars>>

\* Session s serves POST /recommend-by-disease from start to end: it reads
\* the tables, ranks and returns; it adds nothing to its session and never
\* commits, and get_db closes the session.
ServeByDisease(s) ==
    /\ s \notin DOMAIN sessions
    /\ \E max_distance \in {NULL, Some(5)} :
       \E disease_id \in DiseasesLike("hypertension") :
       \E hospital_list \in hospitals_with_departments(disease_id) :
          LET r == recommend_by_disease("u1", disease_id, max_distance, Some(3),
                                        hospital_list)
          IN  sessions' = sessions @@
                  (s :> [pc |-> "returned",
                         op |-> "recommend_by_disease",
                         inference_result_id |-> 0,
                         user_id |-> "u1",
                         limit |-> Some(3),
                         run |-> r,
                         recommendations |-> <<>>])
    /\ UNCHANGED <<domain_vars, hospital_recommendations, request, run, response,
                   score_call, chat, room_vars, connection_vars>>

ConcurrentNext ==
    \/ \E s \in SessionIds : BeginRecommendation(s)
    \/ \E s \in SessionIds : ServeByDisease(s)
    \/ \E s \in SessionIds : Commit(s)
    \/ \E s \in SessionIds : Refresh(s)

ConcurrentSpec == ConcurrentInit /\ [][ConcurrentNext]_vars

\* The sessions whose commit has happened.
CommittedSessions ==
    {s \in DOMAIN sessions : /\ sessions[s].op = "recommend_hospitals"
                             /\ sessions[s].pc \in {"committed", "returned"}}

\* C18: each invocation of recommend_hospitals inserts its own new rows, one
\* per returned recommendation, with ranks 1..k and pairwise distinct
\* hospitals; the rows of an invocation stay in the table as it wrote them
\* whatever other invocations do, interleaved or repeated for the same
\* inference result; and the table holds no other row.
C18_OwnRowsPerInvocation ==
    /\ \A s \in CommittedSessions :
          LET recs == sessions[s].recommendations
              built == sessions[s].run.recommendations
          IN  /\ Len(recs) = Len(sessions[s].run.top)
              /\ \A i \in 1..Len(recs) :
                    /\ recs[i].rank = i
                    /\ recs[i].hospital_id = sessions[s].run.top[i].hospital
                    /\ Cardinality({k \in 1..Len(hospital_recommendations) :
                           hospital_recommendations[k].id = recs[i].id}) = 1
                    /\ RowById(hospital_recommendations, recs[i].id) =
                           Some([built[i] EXCEPT !.id = recs[i].id])
              /\ \A i, j \in 1..Len(recs) :
                    recs[i].hospital_id = recs[j].hospital_id => i = j
    /\ \A s, t \in CommittedSessions :
          s # t => \A i \in 1..Len(sessions[s].recommendations),
                      j \in 1..Len(sessions[t].recommendations) :
                      sessions[s].recommendations[i].id # sessions[t].recommendations[j].id
    /\ \A k \in 1..Len(hospital_recommendations) :
          \E s \in CommittedSessions : \E i \in 1..Len(sessions[s].recommendations) :
              sessions[s].recommendations[i].id = hospital_recommendations[k].id

\* Session 2 committed its two rows for inference result 1 between the
\* db.add() and the commit of session 1, which wrote two rows for the same
\* inference result; both have returned.
C18_Witness ==
    /\ DOMAIN sessions = SessionIds
    /\ \A s \in SessionIds :
          /\ sessions[s].pc = "returned"
          /\ sessions[s].inference_result_id = 1
          /\ Len(sessions[s].recommendations) = 2
    /\ sessions[1].recommendations[1].id = Some(3)
    /\ sessions[2].recommendations[1].id = Some(1)
    /\ sessions[1].recommendations[1].hospital_id # sessions[2].recommendations[1].hospital_id

\* C19: no step of a recommendation run changes a domain record (Hospital,
\* HospitalDepartment, HospitalEquipment, DepartmentDisease,
\* DiseaseEquipmentCategory, Disease) or any other table but
\* hospital_recommendations; a recommend_by_disease request leaves that
\* table as it is too, recommend_hospitals only appends rows to it; and the
\* distance attached to a loaded hospital never reaches the hospitals table.
C19_DomainRecordsUnchanged ==
    [][/\ <<hospitals, hospital_departments, hospital_equipment, department_diseases,
            disease_equipment_categories, diseases>>' =
          <<hospitals, hospital_departments, hospital_equipment, department_diseases,
            disease_equipment_categories, diseases>>
       /\ <<users, model_inference_results>>' = <<users, model_inference_results>>
       /\ (\E s \in DOMAIN sessions' \ DOMAIN sessions :
               sessions'[s].op = "recommend_by_disease")
              => hospital_recommendations' = hospital_recommendations
       /\ Len(hospital_recommendations') >= Len(hospital_recommendations)
       /\ SubSeq(hospital_recommendations', 1, Len(hospital_recommendations)) =
              hospital_recommendations
       /\ \A h \in DOMAIN hospitals' : "_calculated_distance" \notin DOMAIN hospitals'[h]
      ]_vars

\* A recommend_by_disease request was served with a distance attached to a
\* loaded hospital, and a recommend_hospitals invocation with a distance
\* attached to a loaded hospital has committed its rows.
C19_Witness ==
    /\ \E s \in DOMAIN sessions :
          /\ sessions[s].op = "recommend_by_disease"
          /\ sessions[s].pc = "returned"
          /\ sessions[s].run.top # <<>>
          /\ \E i \in 1..Len(sessions[s].run.candidates) :
                sessions[s].run.candidates[i]._calculated_distance > 0
    /\ \E s \in CommittedSessions :
          /\ sessions[s].recommendations # <<>>
          /\ \E i \in 1..Len(sessions[s].run.candidates) :
                sessions[s].run.candidates[i]._calculated_distance > 0
    /\ hospital_recommendations # <<>>

----------------------------------------------------------------------------
(* ChatSpec: the chat flow around the recommendation core: the websocket    *)
(* handler, ml_client, the ml-service and POST /full-analysis of the API    *)

\* Keyword parameters of MLServiceClient.analyze_symptom and of
\* MLServiceClient.get_full_analysis, and the keywords the websocket
\* handler passes to both.
AnalyzeSymptomParameters == {"text", "chat_room_id", "authorization"}
GetFullAnalysisParameters == {"text", "chat_room_id", "authorization"}
HandlerKeywords == {"text", "user_id", "chat_room_id", "authorization"}

\* A Python call binds its keywords; an unexpected keyword raises TypeError.
Accepts(parameters, keywords) == keywords \subseteq parameters

\* What the classifier may return for a text: labels with scores in
\* thousandths, in the order of the pipeline.
Predictions ==
    {<<>>,
     <<[label |-> "hypertension", score |-> 950], [label |-> "eczema", score |-> 30]>>,
     <<[label |-> "eczema", score |-> 100], [label |-> "hypertension", score |-> 800]>>,
     <<[label |-> "hypertension", score |-> 799], [label |-> "eczema", score |-> 201]>>,
     <<[label |-> "eczema", score |-> 900], [label |-> "hypertension", score |-> 100]>>}

\* The ml-service has its model loaded and the text has morphemes ("ok"),
\* or the model is not loaded, or the processed text is empty.
MlStates == {"ok", "not_loaded", "no_text"}

\* disease_classifications.sort(key=score, reverse=True)
RECURSIVE SortedByScore(_)
SortedByScore(cs) ==
    IF cs = <<>> THEN <<>>
    ELSE LET i == CHOOSE i \in 1..Len(cs) :
                      /\ \A j \in 1..Len(cs) : cs[j].score <= cs[i].score
                      /\ \A j \in 1..(i - 1) : cs[j].score < cs[i].score
         IN  <<cs[i]>> \o SortedByScore(SubSeq(cs, 1, i - 1) \o SubSeq(cs, i + 1, Len(cs)))

NoAnalysis ==
    [status |-> 0, disease_classifications |-> <<>>, top_disease |-> "", confidence |-> 0]

\* ml-service POST /analyze.
analyze_symptom(predictions, ml_state) ==
    IF ml_state = "not_loaded" THEN [NoAnalysis EXCEPT !.status = 503]
    ELSE IF ml_state = "no_text" THEN [NoAnalysis EXCEPT !.status = 500]
    ELSE LET disease_classifications == SortedByScore(predictions)
         IN  [status |-> 200,
              disease_classifications |-> disease_classifications,
              top_disease |-> IF disease_classifications # <<>>
                              THEN disease_classifications[1].label ELSE "unknown",
              confidence |-> IF disease_classifications # <<>>
                             THEN disease_classifications[1].score ELSE 0]

\* A threshold that every confidence meets.
AnyConfidence(confidence) == confidence >= 0

\* ml-service full_analysis: confidence >= 0.8
ConfidenceMeetsThreshold(confidence) == confidence >= 800

\* websocket handler: top_score >= 0.8
TopScoreMeetsThreshold(top_score) == top_score >= 800

\* The condition under which full_analysis calls recommend_hospitals.
WouldRecommend(symptom_result, chat_room_id, authorization) ==
    /\ symptom_result.status = 200
    /\ ConfidenceMeetsThreshold(symptom_result.confidence)
    /\ TruthyNum(chat_room_id)
    /\ symptom_result.top_disease # ""
    /\ TruthyStr(authorization)

\* The responses POST /api/medical/recommend-by-disease may give to the
\* ml-service, which sends disease_name and chat_room_id only, authorized
\* as current_user; 503 stands for a service that cannot be reached.
RecommendByDiseaseResponses(current_user, disease_name) ==
    {ErrorResponse(503)} \cup
    (IF current_user \notin DOMAIN users THEN {ErrorResponse(401)}
     ELSE IF \/ IsNull(users[current_user].latitude)
             \/ IsNull(users[current_user].longitude) THEN {ErrorResponse(400)}
     ELSE IF DiseasesLike(disease_name) = {} THEN {ErrorResponse(404)}
     ELSE UNION {{RecommendByDiseaseResponse(
                      recommend_by_disease(current_user, disease_id, DefaultMaxDistance,
                                           DefaultLimit, hospital_list))
                  : hospital_list \in hospitals_with_departments(disease_id)}
                 : disease_id \in DiseasesLike(disease_name)})

\* The responses the recommend-hospitals call of full_analysis may get; the
\* authorization header stands for the user its token names.
LightResponses(symptom_result, chat_room_id, authorization) ==
    IF WouldRecommend(symptom_result, chat_room_id, authorization)
    THEN RecommendByDiseaseResponses(Val(authorization), symptom_result.top_disease)
    ELSE {NoResponse}

\* ml-service POST /full-analysis, light_response being the answer of the
\* API to the recommend-hospitals call, if that call is made. A failure of
\* that call is logged and leaves hospital_recommendations None.
full_analysis(predictions, ml_state, chat_room_id, authorization, light_response) ==
    LET symptom_result == analyze_symptom(predictions, ml_state)
        called == WouldRecommend(symptom_result, chat_room_id, authorization)
    IN  IF symptom_result.status # 200
        THEN [status |-> 500, symptom_analysis |-> symptom_result,
              recommend_called |-> FALSE, hospital_recommendations |-> NULL]
        ELSE [status |-> 200, symptom_analysis |-> symptom_result,
              recommend_called |-> called,
              hospital_recommendations |->
                  IF called /\ light_response.status = 200
                  THEN Some(light_response) ELSE NULL]

\* The exchange in which the handler's try block raised: the reply of the
\* except branch, which asks for more detail.
RaisedExchange ==
    [analyze_called |-> FALSE, get_full_analysis_called |-> FALSE,
     recommend_called |-> FALSE, saved |-> NULL,
     reply |-> [kind |-> "more_detail", hospitals |-> FALSE]]

\* The ModelInferenceResult row the handler saves, if the label of the first
\* classification names a disease.
SavedInference(symptom_analysis, first_disease_record) ==
    IF symptom_analysis.disease_classifications # <<>> /\ ~IsNull(first_disease_record)
    THEN Some([first_disease_id |-> first_disease_record])
    ELSE NULL

\* The websocket handler from the ml_client.analyze_symptom call to the bot
\* reply. first_disease_record is what Disease ... .first() returned.
WebsocketExchange(user_id, predictions, ml_state, light_response, first_disease_record) ==
    IF ~Accepts(AnalyzeSymptomParameters, HandlerKeywords) THEN RaisedExchange
    ELSE
    LET symptom == analyze_symptom(predictions, ml_state)
    IN  IF symptom.status # 200
        THEN [RaisedExchange EXCEPT !.analyze_called = TRUE,
                                    !.reply = [kind |-> "error", hospitals |-> FALSE]]
        ELSE
        LET top_score == IF symptom.disease_classifications # <<>>
                         THEN symptom.disease_classifications[1].score ELSE 0
        IN  IF ~TopScoreMeetsThreshold(top_score)
            THEN [analyze_called |-> TRUE, get_full_analysis_called |-> FALSE,
                  recommend_called |-> FALSE,
                  saved |-> SavedInference(symptom, first_disease_record),
                  reply |-> [kind |-> "symptom+more_detail", hospitals |-> FALSE]]
            ELSE IF ~Accepts(GetFullAnalysisParameters, HandlerKeywords)
            THEN [RaisedExchange EXCEPT !.analyze_called = TRUE]
            ELSE
            LET ml_result == full_analysis(predictions, ml_state, Some(7),
                                           Some(user_id), light_response)
            IN  [analyze_called |-> TRUE, get_full_analysis_called |-> TRUE,
                 recommend_called |-> ml_result.recommend_called,
                 saved |-> SavedInference(symptom, first_disease_record),
                 reply |-> IF ~IsNull(ml_result.hospital_recommendations)
                           THEN [kind |-> "symptom+hospitals", hospitals |-> TRUE]
                           ELSE [kind |-> "symptom+more_detail", hospitals |-> FALSE]]

ChatInit ==
    /\ ScenarioReferenceData
    /\ \E profile \in [1..2 -> ConcurrentProfiles] : PopulateHospitals(profile)
    /\ Idle

\* ChatService.create_chat_message: the table with the committed row. The
\* content is kept as the kind of message it is.
create_chat_message(table, chat_room_id, message_type, content) ==
    Append(table, [chat_room_id |-> chat_room_id, message_type |-> message_type,
                   content |-> content])

\* The foreign key chat_messages.chat_room_id -> chat_rooms.id: the commit of
\* a message of a room that does not exist raises IntegrityError.
RoomExists(chat_room_id) == chat_room_id \in DOMAIN chat_rooms

\* The three messages the websocket handler stores for one user message: the
\* user's, the "analyzing" notice and the bot reply.
WebsocketMessages(table, room_id, reply) ==
    create_chat_message(
        create_chat_message(
            create_chat_message(table, room_id, "USER", "user_message"),
            room_id, "BOT", "analyzing"),
        room_id, "BOT", reply.kind)

\* One user message over the websocket of chat room 7, answered by the bot.
\* The handler checks the token and that the user exists, nothing about the
\* room; storing the user message raises when the room does not exist, and
\* the except branch of the message loop answers with an error JSON.
WebsocketMessage ==
    /\ chat.websocket.op = "none"
    /\ \E user_id \in DOMAIN users, predictions \in Predictions, ml_state \in MlStates :
          /\ ml_state # "ok" => predictions = <<>>
          /\ LET symptom == analyze_symptom(predictions, ml_state)
                 label == symptom.top_disease
             IN  \E light_response \in LightResponses(symptom, Some(7), Some(user_id)),
                    first_disease_record \in
                        (IF DiseasesLike(label) = {} THEN {NULL}
                         ELSE {Some(d) : d \in DiseasesLike(label)}) :
                   LET exchange ==
                           IF RoomExists(7)
                           THEN WebsocketExchange(user_id, predictions, ml_state,
                                                  light_response, first_disease_record)
                           ELSE [RaisedExchange EXCEPT
                                    !.reply = [kind |-> "error_json", hospitals |-> FALSE]]
                   IN  /\ chat' = [chat EXCEPT !.websocket =
                               [op |-> "websocket", user_id |-> user_id,
                                predictions |-> predictions, ml_state |-> ml_state]
                               @@ exchange]
                       /\ model_inference_results' =
                              IF IsNull(exchange.saved) THEN model_inference_results
                              ELSE Append(model_inference_results, Val(exchange.saved))
                       /\ chat_messages' =
                              IF RoomExists(7)
                              THEN WebsocketMessages(chat_messages, 7, exchange.reply)
                              ELSE chat_messages
    /\ UNCHANGED <<hospitals, hospital_departments, hospital_equipment,
                   department_diseases, disease_equipment_categories, diseases, users,
                   hospital_recommendations, request, run, response, score_call, sessions,
                   chat_rooms, connection_vars>>

\* POST /full-analysis of the API by an authenticated user: it calls
\* ml_client.get_full_analysis, which posts to the ml-service, and saves a
\* ModelInferenceResult without first disease id.
FullAnalysisRequest ==
    /\ chat.full_analysis.op = "none"
    /\ \E current_user \in DOMAIN users, chat_room_id \in {NULL, Some(7)},
          predictions \in Predictions, ml_state \in MlStates :
          /\ ml_state # "ok" => predictions = <<>> /\ chat_room_id = Some(7)
          /\ \E light_response \in LightResponses(analyze_symptom(predictions, ml_state),
                                                  chat_room_id, Some(current_user)) :
                LET result == full_analysis(predictions, ml_state, chat_room_id,
                                            Some(current_user), light_response)
                    ml_result == IF result.status = 200 THEN Some(result) ELSE NULL
                IN  /\ chat' = [chat EXCEPT !.full_analysis =
                            [op |-> "full_analysis", user_id |-> current_user,
                             chat_room_id |-> chat_room_id,
                             predictions |-> predictions, ml_state |-> ml_state,
                             status |-> IF IsNull(ml_result) THEN 503 ELSE 200,
                             recommend_called |-> result.recommend_called,
                             hospital_recommendations |-> result.hospital_recommendations]]
                    /\ model_inference_results' =
                           IF IsNull(ml_result) THEN model_inference_results
                           ELSE Append(model_inference_results, [first_disease_id |-> NULL])
    /\ UNCHANGED <<hospitals, hospital_departments, hospital_equipment,
                   department_diseases, disease_equipment_categories, diseases, users,
                   hospital_recommendations, request, run, response, score_call, sessions,
                   room_vars, connection_vars>>

ChatNext == WebsocketMessage \/ FullAnalysisRequest

ChatSpec == ChatInit /\ [][ChatNext]_vars

\* The confidence of the classifier's top prediction for the text.
TopConfidence(predictions) == analyze_symptom(predictions, "ok").confidence

RankedHospitals(s) ==
    [i \in 1..Len(sessions[s].run.top) |-> sessions[s].run.top[i].hospital]

\* C21: two invocations of the same endpoint for the same disease, user
\* location, radius and limit, over the same reference data, return the same
\* hospitals at the same ranks, whatever was invoked before and in whatever
\* order the store returned the candidate rows.
C21_SameInputsSameRanking ==
    \A s, t \in DOMAIN sessions :
        (/\ sessions[s].run.outcome = "returned"
         /\ sessions[t].run.outcome = "returned"
         /\ sessions[s].op = sessions[t].op
         /\ sessions[s].inference_result_id = sessions[t].inference_result_id
         /\ sessions[s].user_id = sessions[t].user_id
         /\ sessions[s].limit = sessions[t].limit
         /\ sessions[s].run.disease_id = sessions[t].run.disease_id
         /\ sessions[s].run.filter_radius = sessions[t].run.filter_radius)
        => RankedHospitals(s) = RankedHospitals(t)

\* C22: in every run the radius R that divides the distance in the distance
\* sub-score is the radius the candidates were filtered with, on both call
\* paths and also when max_distance is null or 0: every scored candidate is
\* within R, and its distance sub-score is zero exactly at distance R.
C22_ScoreRadiusIsFilterRadius ==
    (Ranked /\ run.scored # <<>>) =>
        /\ run.score_radius = run.filter_radius
        /\ \A i \in 1..Len(run.scored) :
              /\ run.scored[i].distance <= Val(run.score_radius)
              /\ run.scored[i].distance_score = 0
                     <=> run.scored[i].distance = Val(run.score_radius)

\* C23: the candidate filter is complete: every hospital with a
\* hospital_departments row for a department linked to the disease, whose
\* category is none of the four excluded ones (an unknown or unspecified
\* category included) and whose distance to the user is at most the filter
\* radius, boundary included, is a candidate.
C23_FilterCompleteness ==
    (Ranked /\ ~IsNull(run.filter_radius)) =>
        \A h \in DOMAIN hospitals :
            (/\ HasLinkedDepartment(h, Val(run.disease_id))
             /\ \A t \in HOSPITAL_TYPE_EXCLUDE : hospitals[h].hospital_type_name # Some(t)
             /\ DistanceToUser(h) <= Val(run.filter_radius))
            => \E k \in 1..Len(run.candidates) : run.candidates[k].id = h

\* C24: when the service returns an empty list, POST /recommend-hospitals
\* answers 404 Not Found, not a 5xx error and not 200.
C24_EmptyResultIs404 ==
    (/\ request.op = "recommend_hospitals"
     /\ run.outcome = "returned"
     /\ run.recommendations = <<>>)
    => response.status = 404

\* C27: total_candidates of a 200 response is the number of hospitals that
\* passed the candidate filter, counted before the truncation to limit: it
\* is at least the number of recommendations and equal to it only when
\* nothing was truncated, on both endpoints.
C27_TotalCandidates ==
    (request.op # "none" /\ response.status = 200) =>
        /\ response.total_candidates = Len(run.candidates)
        /\ response.total_candidates >= Len(response.recommendations)
        /\ response.total_candidates = Len(response.recommendations)
               <=> Len(run.top) = Len(run.scored)

\* C26: for every scored candidate each sub-score lies within its weight
\* (0 <= equipment_score <= W_equip, 0 <= specialist_score <= W_spec,
\* 0 <= distance_score <= W_dist), so their sum lies in [0, 100], and the
\* final score is that sum plus the priority bonus.
C26_SubScoresWithinWeights ==
    Ranked =>
        \A i \in 1..Len(run.scored) :
            LET e == run.scored[i]
                W == e.score_breakdown.weights
                base == e.equipment_score + e.specialist_score + e.distance_score
            IN  /\ 0 <= e.equipment_score /\ e.equipment_score <= W.equip * SCALE
                /\ 0 <= e.specialist_score /\ e.specialist_score <= W.spec * SCALE
                /\ 0 <= e.distance_score /\ e.distance_score <= W.dist * SCALE
                /\ W.equip + W.spec + W.dist = 100
                /\ 0 <= base /\ base <= 100 * SCALE
                /\ e.score = base + PriorityBonus(e.priority)

\* A candidate beyond the score radius has distance score 0, and one with
\* more than nine specialists has the full specialist score.
C26_Witness ==
    /\ Ranked
    /\ \E i \in 1..Len(run.scored) :
          /\ run.scored[i].distance > Val(run.score_radius)
          /\ run.scored[i].distance_score = 0
    /\ \E i \in 1..Len(run.scored) :
          /\ run.scored[i].specialist_count > 9
          /\ run.scored[i].specialist_score = run.scored[i].score_breakdown.weights.spec * SCALE

----------------------------------------------------------------------------
(* SoftDeleteSpec: a database with soft-deleted rows (deleted_at set)       *)

\* A live clinic; a soft-deleted clinic; a hospital one of whose two
\* hospital_departments rows is soft-deleted; a hospital of department 2,
\* whose link to the disease is soft-deleted; a clinic whose ECG row is
\* soft-deleted.
SoftDeleteProfiles ==
    {[hospital_type_name |-> Some("Uiwon"), north_km |-> 2,
      departments |-> <<[department_id |-> 1, specialist_count |-> Some(3),
                         deleted_at |-> NULL]>>,
      equipment |-> <<[equipment_category_name |-> Some("ECG"), deleted_at |-> NULL]>>],
     [hospital_type_name |-> Some("Uiwon"), north_km |-> 1, deleted_at |-> Some(1),
      departments |-> <<[department_id |-> 1, specialist_count |-> Some(4),
                         deleted_at |-> NULL]>>,
      equipment |-> <<[equipment_category_name |-> Some("ECG"), deleted_at |-> NULL]>>],
     [hospital_type_name |-> Some("Byeongwon"), north_km |-> 3,
      departments |-> <<[department_id |-> 1, specialist_count |-> Some(1),
                         deleted_at |-> NULL],
                        [department_id |-> 1, specialist_count |-> Some(8),
                         deleted_at |-> Some(1)]>>,
      equipment |-> <<>>],
     [hospital_type_name |-> Some("Byeongwon"), north_km |-> 4,
      departments |-> <<[department_id |-> 2, specialist_count |-> Some(2),
                         deleted_at |-> NULL]>>,
      equipment |-> <<>>],
     [hospital_type_name |-> Some("Uiwon"), north_km |-> 3,
      departments |-> <<[department_id |-> 1, specialist_count |-> Some(2),
                         deleted_at |-> NULL]>>,
      equipment |-> <<[equipment_category_name |-> Some("ECG"), deleted_at |-> Some(1)]>>]}

\* The reference data of the scenario, the link of department 2 to the
\* disease being soft-deleted.
SoftDeleteInit ==
    /\ department_diseases =
           <<[department_id |-> 1, disease_id |-> 1, deleted_at |-> NULL],
             [department_id |-> 2, disease_id |-> 1, deleted_at |-> Some(1)]>>
    /\ disease_equipment_categories =
           <<[disease_id |-> 1, equipment_category_name |-> "ECG"]>>
    /\ diseases = <<[name |-> "hypertension"]>>
    /\ users = [u \in {"u1", "u2"} |->
                   IF u = "u1" THEN [latitude |-> Some(10), longitude |-> Some(127)]
                   ELSE [latitude |-> NULL, longitude |-> NULL]]
    /\ model_inference_results = <<[first_disease_id |-> Some(1)]>>
    /\ \E profile \in [1..2 -> SoftDeleteProfiles] : PopulateHospitals(profile)
    /\ Idle

SoftDeleteNext ==
    \/ RecommendHospitalsFrom(1..2, {"u1", "u2"}, {Some(5)}, {Some(1), Some(3)})
    \/ RecommendByDiseaseFrom({"u1", "u2"}, {"hypertension", "zzz"}, {NULL, Some(5)},
                              {Some(3)})

SoftDeleteSpec == SoftDeleteInit /\ [][SoftDeleteNext]_vars

\* The row is not soft-deleted.
Live(row) == "deleted_at" \notin DOMAIN row \/ IsNull(row.deleted_at)

\* The specialists of the first k hospital_departments rows that are live,
\* belong to the hospital and to a department with a live link to the
\* disease, a null count counting 0.
RECURSIVE LiveSpecialists(_, _, _)
LiveSpecialists(hospital_id, disease_id, k) ==
    IF k = 0 THEN 0
    ELSE LET hd == hospital_departments[k]
             linked == \E dd \in Range(department_diseases) :
                           /\ Live(dd)
                           /\ dd.disease_id = disease_id
                           /\ dd.department_id = hd.department_id
         IN  LiveSpecialists(hospital_id, disease_id, k - 1)
                 + (IF /\ Live(hd) /\ hd.hospital_id = hospital_id /\ linked
                       /\ ~IsNull(hd.specialist_count)
                    THEN Val(hd.specialist_count)
                    ELSE 0)

\* C28: soft-deleted records never influence a recommendation: no candidate
\* is a soft-deleted hospital, every candidate has a live hospital_departments
\* row for a department with a live link to the disease, and a candidate is
\* scored with the specialists of such rows only and with the equipment of
\* its live hospital_equipment rows only.
C28_SoftDeletedNeverCounted ==
    Ranked =>
        /\ \A k \in 1..Len(run.candidates) :
              LET h == run.candidates[k].id
              IN  /\ Live(hospitals[h])
                  /\ \E hd \in Range(hospital_departments) :
                        /\ Live(hd)
                        /\ hd.hospital_id = h
                        /\ \E dd \in Range(department_diseases) :
                              /\ Live(dd)
                              /\ dd.disease_id = Val(run.disease_id)
                              /\ dd.department_id = hd.department_id
        /\ \A i \in 1..Len(run.scored) :
              /\ run.scored[i].specialist_count =
                     LiveSpecialists(run.scored[i].hospital, Val(run.disease_id),
                                     Len(hospital_departments))
              /\ Range(run.scored[i].held_equipment) = HeldCategories(run.scored[i].hospital)

-----------------------------------------------------------------------------
(* Chat rooms: the three entry points that store chat messages             *)

\* Room 7 may exist; room 8 never does.
RoomIds == {7, 8}

\* The rows create_chat_message appended in this step.
NewMessages == SubSeq(chat_messages', Len(chat_messages) + 1, Len(chat_messages'))

\* POST /rooms/{room_id}/messages: 404 without the room, 403 for a room of
\* another user, otherwise the user's message and a keyword reply of the bot.
SendMessage ==
    /\ request = NoRequest
    /\ \E current_user \in DOMAIN users, room_id \in RoomIds :
          LET status == IF ~RoomExists(room_id) THEN 404
                        ELSE IF chat_rooms[room_id].user_id # current_user THEN 403
                        ELSE 200
          IN  /\ request' = [op |-> "send_message", user_id |-> current_user,
                             chat_room_id |-> Some(room_id)]
              /\ response' = [status |-> status]
              /\ chat_messages' =
                     IF status = 200
                     THEN create_chat_message(
                              create_chat_message(chat_messages, room_id,
                                                  "USER", "user_message"),
                              room_id, "BOT", "keyword_reply")
                     ELSE chat_messages
    /\ UNCHANGED <<domain_vars, hospital_recommendations, run, score_call, sessions,
                   chat, chat_rooms, connection_vars>>

\* get_disease_id of POST /analyze-symptom: Disease.name == label, .first().
get_disease_id(disease_label) ==
    LET named == {d \in DOMAIN diseases : diseases[d].name = disease_label}
    IN  IF named = {} THEN {NULL} ELSE {Some(d) : d \in named}

\* The handler of POST /analyze-symptom (start_new_session left at its
\* default, False): its status, the chat messages it stores in order, the
\* ModelInferenceResult it saves and the two threshold fields of its body.
analyze_symptom_endpoint(current_user, chat_room_id, predictions, ml_state, first_disease_id) ==
    LET in_room == TruthyNum(chat_room_id)
        room_id == Val(chat_room_id)
        rejected == [status |-> 403, stored |-> <<>>, saved |-> NULL,
                     confidence_threshold_met |-> FALSE]
        ml_result == analyze_symptom(predictions, ml_state)
        user_message == IF in_room THEN <<[message_type |-> "USER", content |-> "user_message"]>>
                        ELSE <<>>
        bot_message == IF in_room THEN <<[message_type |-> "BOT", content |-> "disease_results"]>>
                       ELSE <<>>
        threshold_message ==
            IF in_room THEN <<[message_type |-> "BOT", content |-> "add_more_symptoms"]>>
            ELSE <<>>
        top_score == IF ml_result.disease_classifications # <<>>
                     THEN ml_result.disease_classifications[1].score ELSE 0
    IN  IF in_room /\ (~RoomExists(room_id) \/ chat_rooms[room_id].user_id # current_user)
        THEN rejected
        ELSE IF ml_result.status # 200
        THEN [rejected EXCEPT !.status = 503, !.stored = user_message]
        ELSE IF ~(top_score >= 800)
        THEN [status |-> 200, stored |-> user_message \o bot_message \o threshold_message,
              saved |-> NULL, confidence_threshold_met |-> FALSE]
        ELSE [status |-> 200, stored |-> user_message \o bot_message,
              saved |-> Some([first_disease_id |-> first_disease_id]),
              confidence_threshold_met |-> TRUE]

\* POST /analyze-symptom by an authenticated user.
AnalyzeSymptomRequest ==
    /\ request = NoRequest
    /\ \E current_user \in DOMAIN users, chat_room_id \in {NULL} \cup {Some(r) : r \in RoomIds},
          predictions \in Predictions, ml_state \in MlStates :
          /\ ml_state # "ok" => predictions = <<>>
          /\ \E first_disease_id \in
                  get_disease_id(analyze_symptom(predictions, ml_state).top_disease) :
                LET r == analyze_symptom_endpoint(current_user, chat_room_id, predictions,
                                                  ml_state, first_disease_id)
                IN  /\ request' = [op |-> "analyze_symptom", user_id |-> current_user,
                                   chat_room_id |-> chat_room_id,
                                   predictions |-> predictions, ml_state |-> ml_state]
                    /\ chat_messages' = chat_messages \o
                           [i \in 1..Len(r.stored) |->
                               [chat_room_id |-> Val(chat_room_id),
                                message_type |-> r.stored[i].message_type,
                                content |-> r.stored[i].content]]
                    /\ model_inference_results' =
                           IF IsNull(r.saved) THEN model_inference_results
                           ELSE Append(model_inference_results, Val(r.saved))
                    /\ response' =
                           [status |-> r.status,
                            inference_result_id |->
                                IF IsNull(r.saved) THEN NULL
                                ELSE Some(Len(model_inference_results')),
                            confidence_threshold_met |-> r.confidence_threshold_met]
    /\ UNCHANGED <<hospitals, hospital_departments, hospital_equipment,
                   department_diseases, disease_equipment_categories, diseases, users,
                   hospital_recommendations, run, score_call, sessions,
                   chat, chat_rooms, connection_vars>>

\* Hospital A at 2 km and hospital B at 4 km; room 7 is missing or owned by
\* u1 or by u2.
ChatRoomInit ==
    /\ ScenarioReferenceData
    /\ PopulateHospitals([h \in 1..2 |-> CHOOSE p \in ConcurrentProfiles : p.north_km = 2 * h])
    /\ NoTraffic
    /\ chat_rooms \in {<<>>, RoomOwnedBy("u1"), RoomOwnedBy("u2")}

\* One REST request and one websocket message, in either order.
ChatRoomNext == SendMessage \/ AnalyzeSymptomRequest \/ WebsocketMessage

ChatRoomSpec == ChatRoomInit /\ [][ChatRoomNext]_vars

\* The step is one request of POST /analyze-symptom.
AnalyzeSymptomStep == request'.op = "analyze_symptom" /\ chat' = chat

\* C25: when the top prediction score is below the threshold 0.8, POST
\* /analyze-symptom persists no ModelInferenceResult, returns
\* inference_result_id = None and confidence_threshold_met = False, and the
\* only BOT message it stores in the chat room is the one asking for more
\* symptoms (no formatted disease-result message).
C25_BelowThresholdStoresOnlyAddSymptoms ==
    [][(/\ AnalyzeSymptomStep
        /\ response'.status = 200
        /\ TopConfidence(request'.predictions) < 800)
       => /\ model_inference_results' = model_inference_results
          /\ IsNull(response'.inference_result_id)
          /\ ~response'.confidence_threshold_met
          /\ LET bot == SelectSeq(NewMessages, LAMBDA m : m.message_type = "BOT")
             IN  bot = IF TruthyNum(request'.chat_room_id)
                       THEN <<[chat_room_id |-> Val(request'.chat_room_id),
                               message_type |-> "BOT", content |-> "add_more_symptoms"]>>
                       ELSE <<>>]_vars

\* The authenticated user of the request of this step: of the websocket
\* message when the step is one, of the REST request otherwise.
StepUser == IF chat' # chat THEN chat'.websocket.user_id ELSE request'.user_id

\* C29: a chat message is stored in a chat room only on behalf of the user who
\* owns the room: whatever the entry point (POST /rooms/{room_id}/messages,
\* POST /analyze-symptom with chat_room_id, websocket /ws/{room_id}), a
\* request by a user who is not the room's owner, or for a room that does
\* not exist, creates no ChatMessage in that room.
C29_MessagesOnlyForOwner ==
    [][\A room_id \in RoomIds :
          (~RoomExists(room_id) \/ chat_rooms[room_id].user_id # StepUser)
          => \A i \in 1..Len(NewMessages) : NewMessages[i].chat_room_id # room_id]_vars

-----------------------------------------------------------------------------
(* ConnectionManager: websocket connects and disconnects                   *)

\* The most websockets a behaviour accepts.
MaxConnections == 3

\* ConnectionManager.connect after websocket.accept() returned: the room's
\* dict is created when missing and the entry of user_id is assigned.
connect(connections, websocket, room_id, user_id) ==
    LET room == IF room_id \in DOMAIN connections THEN connections[room_id] ELSE <<>>
    IN  (room_id :> ((user_id :> websocket) @@ room)) @@ connections

\* ConnectionManager.disconnect: the entry of user_id is deleted, and the
\* room with it when no entry is left.
disconnect(connections, room_id, user_id) ==
    IF room_id \notin DOMAIN connections THEN connections
    ELSE LET room == [u \in DOMAIN connections[room_id] \ {user_id} |->
                        connections[room_id][u]]
         IN  IF DOMAIN room = {}
             THEN [r \in DOMAIN connections \ {room_id} |-> connections[r]]
             ELSE [connections EXCEPT ![room_id] = room]

\* The websockets broadcast_json_to_room sends to.
Registered(room_id) ==
    IF room_id \in DOMAIN active_connections
    THEN {active_connections[room_id][u] : u \in DOMAIN active_connections[room_id]}
    ELSE {}

\* websocket_endpoint up to its message loop: a user with a valid token
\* opens a websocket on a room, any room id, and manager.connect accepts it.
Connect ==
    /\ Len(websockets) < MaxConnections
    /\ \E user_id \in DOMAIN users, room_id \in RoomIds :
          LET websocket == Len(websockets) + 1
          IN  /\ websockets' = Append(websockets, [room_id |-> room_id, user_id |-> user_id,
                                                   state |-> "open"])
              /\ active_connections' = connect(active_connections, websocket,
                                               room_id, user_id)
    /\ UNCHANGED <<domain_vars, hospital_recommendations, request, run, response,
                   score_call, sessions, chat, room_vars>>

\* The client of an open websocket goes away: receive_json raises
\* WebSocketDisconnect in its handler, which calls
\* manager.disconnect(room_id, user_id).
Disconnect ==
    /\ \E websocket \in DOMAIN websockets :
          /\ websockets[websocket].state = "open"
          /\ websockets' = [websockets EXCEPT ![websocket].state = "closed"]
          /\ active_connections' = disconnect(active_connections,
                                              websockets[websocket].room_id,
                                              websockets[websocket].user_id)
    /\ UNCHANGED <<domain_vars, hospital_recommendations, request, run, response,
                   score_call, sessions, chat, room_vars>>

ConnectionInit ==
    /\ ScenarioReferenceData
    /\ PopulateHospitals([h \in 1..2 |-> CHOOSE p \in ConcurrentProfiles : p.north_km = 2 * h])
    /\ Idle

ConnectionNext == Connect \/ Disconnect

ConnectionSpec == ConnectionInit /\ [][ConnectionNext]_vars

\* C30: for any interleaving of connects and disconnects, a connection that
\* connect accepted and that has not itself disconnected is registered in
\* active_connections of its room (so it receives every broadcast to the
\* room): no connect or disconnect of another connection removes its entry;
\* and active_connections keeps no room without connections.
C30_AcceptedStaysRegistered ==
    /\ \A websocket \in DOMAIN websockets :
          websockets[websocket].state = "open"
          => websocket \in Registered(websockets[websocket].room_id)
    /\ \A room_id \in DOMAIN active_connections :
          DOMAIN active_connections[room_id] # {}

====
